---- MODULE Spec2Model ----
(***************************************************************************)
(* Signal processing pipeline of the Tiger options trading service:        *)
(* SignalProcessor (queue, status map, drain, the three executions),       *)
(* the validator, selector, sizer, risk gate and order constructor it      *)
(* drives, and the queue of EnhancedSignalProcessor.                       *)
(*                                                                         *)
(* Every coroutine of SignalProcessor awaits only other coroutines of the  *)
(* class and the broker client is called synchronously, so a handler runs  *)
(* without suspension; the drain is split into steps only to expose the    *)
(* intermediate status "processing", and no other handler runs in between. *)
(***************************************************************************)
EXTENDS Integers, Sequences, FiniteSets, TLC

\* ---------------------------------------------------------------- bounds
MaxQueue == 2        \* signals held in a queue at once
MaxUuid == 3         \* uuid4 values EnhancedSignalProcessor draws in a run

None == -999         \* Python None in a numeric field

\* request ids a caller passes to process_webhook_signal
SignalIds == {"req-1", "req-2"}
Uuids == 1..MaxUuid

\* ------------------------------------------------------- account settings
Accounts == {"account_1", "account_2"}

\* AccountConfig fields read by the pipeline (YAML values of each account);
\* max_position_size must be positive for AuthService._validate_account,
\* default_position_size is an int nothing checks: account_2 has it at 0
max_position_size(a) == IF a = "account_1" THEN 10 ELSE 1000
default_position_size(a) == IF a = "account_1" THEN 4 ELSE 0
allow_options_trading(a) == a = "account_1"

AccountStates == {"enabled", "disabled", "absent"}

\* ---------------------------------------------------------------- symbols
OptionSymbol == "AAPL  250117C00150000"
Symbols == {"AAPL", "MSFT", "", "A1", OptionSymbol}

\* symbol.strip().upper() matches ^[A-Z]{1,5}$
stock_pattern(s) == s \in {"AAPL", "MSFT"}
\* symbol matches ^[A-Z]{1,5}\s+\d{6}[CP]\d{8}$
option_pattern(s) == s = OptionSymbol
\* symbol matches ^[A-Z]{3,10}[/-][A-Z]{3,10}$
crypto_pattern(s) == FALSE
\* " " in symbol and ("C" in symbol or "P" in symbol) and len(symbol) > 10
is_option_symbol(s) == s = OptionSymbol
\* "/" in symbol or "-" in symbol
is_crypto_symbol(s) == FALSE
\* "." in symbol or len(symbol) > 5
is_complex_symbol(s) == s = OptionSymbol
\* re.match(r'^[A-Z0-9\s\.\-/]+$', symbol)
valid_characters(s) == s # ""

valid_actions == {"buy", "sell", "close", "close_all"}
valid_order_types == {"market", "limit", "stop", "stop_limit", "trailing_stop"}

\* --------------------------------------------------------------- validator
\* WebhookSignal values the callers submit (action and order_type are already
\* lower-cased members of their enumerations: the model's own validators)
BuySignal ==
  [symbol |-> "AAPL", action |-> "buy", quantity |-> 5, price |-> 150,
   stop_price |-> None, order_type |-> "limit"]
SellSignal ==
  [symbol |-> "AAPL", action |-> "sell", quantity |-> None, price |-> None,
   stop_price |-> None, order_type |-> "market"]
CloseSignal ==
  [symbol |-> "AAPL", action |-> "close", quantity |-> None, price |-> None,
   stop_price |-> None, order_type |-> "market"]
CloseAllSignal ==
  [symbol |-> "MSFT", action |-> "close_all", quantity |-> None, price |-> None,
   stop_price |-> None, order_type |-> "market"]
BlankSymbolSignal ==
  [symbol |-> "", action |-> "buy", quantity |-> 5, price |-> None,
   stop_price |-> None, order_type |-> "market"]
OversizeSignal ==
  [symbol |-> "AAPL", action |-> "buy", quantity |-> 12, price |-> None,
   stop_price |-> None, order_type |-> "market"]

WebhookSignals ==
  { BuySignal, SellSignal, CloseSignal, CloseAllSignal, BlankSymbolSignal,
    OversizeSignal,
    [symbol |-> "AAPL", action |-> "buy", quantity |-> 0, price |-> None,
     stop_price |-> None, order_type |-> "market"],
    [symbol |-> "A1", action |-> "sell", quantity |-> 5, price |-> None,
     stop_price |-> None, order_type |-> "market"],
    [symbol |-> "AAPL", action |-> "buy", quantity |-> 5, price |-> 150,
     stop_price |-> 140, order_type |-> "stop_limit"],
    [symbol |-> OptionSymbol, action |-> "buy", quantity |-> 5, price |-> None,
     stop_price |-> None, order_type |-> "market"] }

\* a str field that holds None instead of text
Missing == "<None>"
\* Python truthiness of such a field: "not text"
falsy(text) == text \in {Missing, ""}
\* text.strip(), for the texts of the model (one blank, or no outer blanks)
strip(text) == IF text = " " THEN "" ELSE text

\* Decimal.as_tuple().exponent of a quantity: the named signals carry
\* integers written without fraction ("5"), whose exponent is 0; "5.00000000"
\* has the value 5 and the exponent -8
quantity_exponent(signal) ==
  IF "quantity_exponent" \in DOMAIN signal THEN signal.quantity_exponent ELSE 0

\* WebhookSignal.time_in_force, "day" by default
time_in_force(signal) ==
  IF "time_in_force" \in DOMAIN signal THEN signal.time_in_force ELSE "day"
valid_time_in_force == {"day", "gtc", "ioc", "fok"}

validate_required_fields(signal) ==
  (IF falsy(signal.symbol) \/ strip(signal.symbol) = ""
     THEN <<"Symbol is required and cannot be empty">> ELSE <<>>)
  \o (IF falsy(signal.action) \/ strip(signal.action) = ""
        THEN <<"Action is required and cannot be empty">> ELSE <<>>)

validate_symbol_format(symbol) ==
  IF falsy(symbol) THEN <<>>
  ELSE IF strip(symbol) = "" THEN <<"Symbol cannot be empty">>
  ELSE (IF ~valid_characters(symbol)
          THEN <<"Symbol contains invalid characters">> ELSE <<>>)
       \o (IF is_option_symbol(symbol)
             THEN (IF ~option_pattern(symbol)
                     THEN <<"Invalid option symbol format">> ELSE <<>>)
           ELSE IF is_crypto_symbol(symbol)
             THEN (IF ~crypto_pattern(symbol)
                     THEN <<"Invalid crypto symbol format">> ELSE <<>>)
           ELSE IF ~stock_pattern(symbol) /\ ~is_complex_symbol(symbol)
             THEN <<"Invalid symbol format">>
           ELSE <<>>)

validate_action(action) ==
  IF falsy(action) THEN <<>>
  ELSE IF strip(action) \notin valid_actions THEN <<"Invalid action">>
  ELSE <<>>

MaxQuantity == 1000000
MaxPrice == 1000000
MaxDecimalPlaces == 8

\* _validate_quantities accepting every quantity up to the limit
validate_quantities_mut(signal) ==
  IF signal.quantity = None THEN <<>>
  ELSE (IF signal.quantity > MaxQuantity
          THEN <<"Quantity is too large (max 1,000,000)">> ELSE <<>>)
       \o (IF quantity_exponent(signal) < -MaxDecimalPlaces
             THEN <<"Quantity has too many decimal places (max 8)">> ELSE <<>>)

validate_quantities(signal) ==
  IF signal.quantity = None THEN <<>>
  ELSE (IF signal.quantity <= 0 THEN <<"Quantity must be positive">> ELSE <<>>)
       \o (IF signal.quantity > MaxQuantity
             THEN <<"Quantity is too large (max 1,000,000)">> ELSE <<>>)
       \o (IF quantity_exponent(signal) < -MaxDecimalPlaces
             THEN <<"Quantity has too many decimal places (max 8)">> ELSE <<>>)

\* _validate_prices demanding stop above limit whatever the action
validate_prices_mut(signal) ==
  (IF signal.price # None
     THEN (IF signal.price <= 0 THEN <<"Price must be positive">> ELSE <<>>)
          \o (IF signal.price > MaxPrice
                THEN <<"Price is too high (max 1,000,000)">> ELSE <<>>)
     ELSE <<>>)
  \o (IF signal.stop_price # None
        THEN (IF signal.stop_price <= 0
                THEN <<"Stop price must be positive">> ELSE <<>>)
             \o (IF signal.stop_price > MaxPrice
                   THEN <<"Stop price is too high (max 1,000,000)">> ELSE <<>>)
        ELSE <<>>)
  \o (IF signal.price # None /\ signal.stop_price # None
         /\ signal.order_type = "stop_limit"
        THEN IF signal.stop_price <= signal.price
               THEN <<"For buy stop-limit orders, stop price should be above limit price">>
             ELSE <<>>
        ELSE <<>>)

validate_prices(signal) ==
  (IF signal.price # None
     THEN (IF signal.price <= 0 THEN <<"Price must be positive">> ELSE <<>>)
          \o (IF signal.price > MaxPrice
                THEN <<"Price is too high (max 1,000,000)">> ELSE <<>>)
     ELSE <<>>)
  \o (IF signal.stop_price # None
        THEN (IF signal.stop_price <= 0
                THEN <<"Stop price must be positive">> ELSE <<>>)
             \o (IF signal.stop_price > MaxPrice
                   THEN <<"Stop price is too high (max 1,000,000)">> ELSE <<>>)
        ELSE <<>>)
  \o (IF signal.price # None /\ signal.stop_price # None
         /\ signal.order_type = "stop_limit"
        THEN IF signal.action = "buy" /\ signal.stop_price <= signal.price
               THEN <<"For buy stop-limit orders, stop price should be above limit price">>
             ELSE IF signal.action = "sell" /\ signal.stop_price >= signal.price
               THEN <<"For sell stop-limit orders, stop price should be below limit price">>
             ELSE <<>>
        ELSE <<>>)

validate_order_parameters(signal) ==
  (IF signal.order_type \notin valid_order_types
     THEN <<"Invalid order type">> ELSE <<>>)
  \o (IF signal.order_type \in {"limit", "stop_limit"} /\ signal.price = None
        THEN <<"Price is required">> ELSE <<>>)
  \o (IF signal.order_type \in {"stop", "stop_limit"} /\ signal.stop_price = None
        THEN <<"Stop price is required">> ELSE <<>>)
  \o (IF time_in_force(signal) \notin valid_time_in_force
        THEN <<"Invalid time in force">> ELSE <<>>)

validate_against_account_config(signal, account) ==
  (IF ~allow_options_trading(account) /\ ~falsy(signal.symbol)
      /\ is_option_symbol(signal.symbol)
     THEN <<"Options trading is not enabled for this account">> ELSE <<>>)
  \o (IF signal.quantity # None /\ signal.quantity > max_position_size(account)
        THEN <<"Quantity exceeds max position size">> ELSE <<>>)

\* a validate_signal that stops at the first check reporting errors
validate_signal_mut(signal, account) ==
  LET checks == << validate_required_fields(signal),
                   validate_symbol_format(signal.symbol),
                   validate_action(signal.action),
                   validate_quantities(signal),
                   validate_prices(signal),
                   validate_order_parameters(signal),
                   validate_against_account_config(signal, account) >>
      failing == {i \in 1..7 : checks[i] # <<>>}
      errors == IF failing = {} THEN <<>>
                ELSE checks[CHOOSE i \in failing : \A j \in failing : i <= j]
  IN [is_valid |-> Len(errors) = 0, errors |-> errors]

\* SignalValidator.validate_signal: every check runs, the errors accumulate
validate_signal(signal, account) ==
  LET errors == validate_required_fields(signal)
                \o validate_symbol_format(signal.symbol)
                \o validate_action(signal.action)
                \o validate_quantities(signal)
                \o validate_prices(signal)
                \o validate_order_parameters(signal)
                \o validate_against_account_config(signal, account)
  IN [is_valid |-> Len(errors) = 0, errors |-> errors]

\* str.lower() on the words an action or an order type can be written with
lower(text) ==
  CASE text \in {"BUY", "Buy"} -> "buy"
    [] text \in {"SELL", "Sell"} -> "sell"
    [] text \in {"CLOSE", "Close"} -> "close"
    [] text \in {"CLOSE_ALL", "Close_All"} -> "close_all"
    [] text \in {"MARKET", "Market"} -> "market"
    [] text \in {"LIMIT", "Limit"} -> "limit"
    [] text \in {"STOP", "Stop"} -> "stop"
    [] text \in {"STOP_LIMIT", "Stop_Limit"} -> "stop_limit"
    [] OTHER -> text

\* SignalValidator.convert_to_trade_signal: the quantity the signal lacks is
\* the account's default_position_size, whatever that number is
convert_to_trade_signal(signal, account, signal_id) ==
  [signal_id |-> signal_id,
   account_name |-> account,
   symbol |-> signal.symbol,
   action |-> lower(signal.action),
   quantity |-> IF signal.quantity = None THEN default_position_size(account)
                ELSE signal.quantity,
   price |-> signal.price,
   stop_price |-> signal.stop_price,
   order_type |-> lower(signal.order_type)]


\* ------------------------------------------------ Python object shapes
\* fields declared by models.tiger.OptionContract, and those without default
OptionContractFields ==
  {"symbol", "underlying_symbol", "strike", "expiry", "option_type",
   "multiplier", "bid", "ask", "last", "volume", "open_interest",
   "delta", "gamma", "theta", "vega", "implied_volatility"}
OptionContractRequired ==
  {"symbol", "underlying_symbol", "strike", "expiry", "option_type"}

\* keyword arguments SignalProcessor._get_option_chain passes to OptionContract
ChainContractKwargs ==
  {"symbol", "underlying", "strike", "expiry", "option_type", "bid", "ask",
   "last_price", "volume", "open_interest"}

\* pydantic: construction raises ValidationError when a required field is
\* missing from the keyword arguments (unknown keywords are ignored)
OptionContractConstructs(kwargs) == OptionContractRequired \subseteq kwargs

\* public methods of PositionManager
PositionManagerMethods ==
  {"update_positions", "get_position", "get_all_positions",
   "get_positions_by_underlying", "calculate_portfolio_metrics",
   "check_position_limits", "suggest_position_sizing",
   "get_expiring_positions"}

\* TradeSignal.action is declared str; only an Enum member has .value
TradeSignalActionType == "str"
HasValueAttribute(type) == type = "Enum"

\* both broker clients return models.tiger.Position objects from
\* get_positions(); a pydantic model has no dict-style .get()
ClientPositionType == "Position"
HasGetMethod(type) == type = "dict"

\* ------------------------------------------------------------ broker data
\* strikes and underlying prices are in dollars, premiums in cents

\* MockTigerClient.get_option_chain(symbol): five calls, five puts expiring d
\* days from now
MockStrikes == <<140, 145, 150, 155, 160>>
MockChain(d) ==
  [i \in 1..10 |->
     IF i <= 5
       THEN [strike |-> MockStrikes[i], option_type |-> "call", expiry_days |-> d,
             bid |-> 250, ask |-> 270, volume |-> 100, open_interest |-> 500]
       ELSE [strike |-> MockStrikes[i - 5], option_type |-> "put", expiry_days |-> d,
             bid |-> 180, ask |-> 200, volume |-> 80, open_interest |-> 300]]

\* the broker behind an account's client: the positions it holds, what
\* client.get_option_chain(symbol) does (TigerClient's signature needs an
\* expiry argument, so the one-argument call raises TypeError;
\* MockTigerClient returns its list of dicts), the wall clock, and whether
\* place_order returns an order id
Brokers ==
  { [positions |-> <<>>, chain |-> "mock", days |-> 30,
     clock |-> [weekend |-> FALSE, in_hours |-> TRUE], accepts |-> TRUE],
    [positions |-> <<[symbol |-> OptionSymbol, quantity |-> 10]>>,
     chain |-> "raises", days |-> 30,
     clock |-> [weekend |-> FALSE, in_hours |-> TRUE], accepts |-> TRUE],
    [positions |-> <<[symbol |-> OptionSymbol, quantity |-> 10],
                     [symbol |-> "MSFT", quantity |-> -3]>>,
     chain |-> "mock", days |-> 2,
     clock |-> [weekend |-> TRUE, in_hours |-> FALSE], accepts |-> FALSE],
    [positions |-> <<>>, chain |-> "empty", days |-> 90,
     clock |-> [weekend |-> FALSE, in_hours |-> FALSE], accepts |-> TRUE] }

client_get_option_chain(b) ==
  IF b.chain = "raises" THEN [raises |-> TRUE, data |-> <<>>]
  ELSE IF b.chain = "empty" THEN [raises |-> FALSE, data |-> <<>>]
  ELSE [raises |-> FALSE, data |-> MockChain(b.days)]

\* the OptionContract built from one contract_data dict: the Greeks are not
\* passed and stay None; 2025-01-17 is a Friday
parse_contract(cd) ==
  [strike |-> cd.strike, option_type |-> cd.option_type,
   expiry_days |-> cd.expiry_days, expiry_weekend |-> FALSE,
   bid |-> cd.bid, ask |-> cd.ask, volume |-> cd.volume,
   open_interest |-> cd.open_interest,
   has_greeks |-> FALSE, delta |-> 0, vega |-> 0, theta |-> 0]

\* SignalProcessor._get_option_chain: a contract whose construction raises is
\* skipped; any other exception gives the empty list
get_option_chain(response) ==
  IF response.raises THEN <<>>
  ELSE LET F[i \in 0..Len(response.data)] ==
             IF i = 0 THEN <<>>
             ELSE IF OptionContractConstructs(ChainContractKwargs)
               THEN Append(F[i - 1], parse_contract(response.data[i]))
               ELSE F[i - 1]
       IN F[Len(response.data)]

\* ------------------------------------------------------------ OptionSelector
determine_option_type(signal) ==
  IF signal.action = "buy" THEN "call"
  ELSE IF signal.action = "sell" THEN "put"
  ELSE "call"

filter_by_option_type(contracts, option_type) ==
  SelectSeq(contracts, LAMBDA c : c.option_type = option_type)

MinDays == 7
MaxDays == 60
filter_by_expiration(contracts) ==
  SelectSeq(contracts, LAMBDA c : MinDays <= c.expiry_days /\ c.expiry_days <= MaxDays)

Abs(x) == IF x < 0 THEN -x ELSE x

\* an ATM selection that takes the first contract offered
select_atm_contract_mut(contracts, current_price) ==
  IF contracts = <<>> THEN <<>> ELSE <<contracts[1]>>

\* first contract (in list order) with non-zero strike at minimal distance
select_atm_contract(contracts, current_price) ==
  LET ok == {i \in 1..Len(contracts) : contracts[i].strike # 0}
      dist(i) == Abs(contracts[i].strike - current_price)
      best == {i \in ok : /\ \A j \in ok : dist(i) <= dist(j)
                          /\ \A j \in ok : j < i => dist(j) > dist(i)}
  IN IF best = {} THEN <<>> ELSE <<contracts[CHOOSE i \in best : TRUE]>>

\* an OTM selection that lets the strike at the underlying price through
select_otm_contract_mut(contracts, current_price) ==
  LET otm_contracts ==
        SelectSeq(contracts, LAMBDA c :
          /\ c.strike # 0
          /\ \/ c.option_type = "call" /\ c.strike >= current_price
             \/ c.option_type = "put" /\ c.strike <= current_price)
  IN select_atm_contract(otm_contracts, current_price)

\* calls above the price and puts below it, sorted (stably) by distance to
\* the price; the head of the sorted list is the first contract in list
\* order at minimal distance
select_otm_contract(contracts, current_price) ==
  LET otm_contracts ==
        SelectSeq(contracts, LAMBDA c :
          /\ c.strike # 0
          /\ \/ c.option_type = "call" /\ c.strike > current_price
             \/ c.option_type = "put" /\ c.strike < current_price)
  IN select_atm_contract(otm_contracts, current_price)

\* the strategies used here; every other value falls back to ATM
apply_selection_strategy(contracts, current_price, strategy) ==
  IF strategy = "otm" THEN select_otm_contract(contracts, current_price)
  ELSE select_atm_contract(contracts, current_price)

\* select_option_contract with its strategy argument; <<>> stands for None
select_option_contract_by(signal, option_chain, current_price, strategy) ==
  IF option_chain = <<>> THEN <<>>
  ELSE LET typed == filter_by_option_type(option_chain, determine_option_type(signal))
       IN IF typed = <<>> THEN <<>>
          ELSE LET dated == filter_by_expiration(typed)
               IN IF dated = <<>> THEN <<>>
                  ELSE apply_selection_strategy(dated, current_price, strategy)

\* select_option_contract with the default strategy, SelectionStrategy.ATM
select_option_contract(signal, option_chain, current_price) ==
  select_option_contract_by(signal, option_chain, current_price, "atm")

\* ---------------------------------------------------------- PositionManager
\* the position book as the risk gate and the sizer read it
EmptyBook ==
  [symbol_qty |-> 0, positions |-> 0, total_value |-> 0, underlying_value |-> 0,
   unrealized_pnl |-> 0, delta |-> 0, vega |-> 0, theta |-> 0]

Min(a, b) == IF a < b THEN a ELSE b
Max(a, b) == IF a > b THEN a ELSE b

\* suggest_position_sizing with risk_percentage 0.02 and the $5 contract:
\* max_contracts = portfolio_value * 0.02 * 10 / 5 = portfolio_value / 25
\* Quantities are whole here: a fractional max_contracts is cut to its
\* integer part, which is on the same side of every whole bound

\* a sizing without the final floor of one contract
position_sizing_mut(portfolio_value, max_account_size, default_size, signal_quantity) ==
  LET q1 == Min(signal_quantity, max_account_size)
      q2 == IF q1 > default_size * 2 THEN default_size ELSE q1
  IN IF portfolio_value > 0 THEN Min(q2, portfolio_value \div 25) ELSE q2

\* the body of the method, by the values it reads
position_sizing(portfolio_value, max_account_size, default_size, signal_quantity) ==
  LET q1 == Min(signal_quantity, max_account_size)
      q2 == IF q1 > default_size * 2 THEN default_size ELSE q1
      q3 == IF portfolio_value > 0
              THEN Min(q2, portfolio_value \div 25)
              ELSE q2
  IN Max(q3, 1)

suggest_position_sizing(book, account, signal_quantity) ==
  position_sizing(book.total_value, max_position_size(account),
                  default_position_size(account), signal_quantity)


\* -------------------------------------------------------------- RiskManager
max_daily_loss == 5000
max_portfolio_delta == 100
max_open_positions == 20
min_days_to_expiry == 3
max_vega_exposure == 1000
max_theta_decay == 500

check_position_size_limits(book, account, quantity) ==
  (IF Abs(book.symbol_qty + quantity) > max_position_size(account)
     THEN <<"Position size limit exceeded">> ELSE <<>>)
  \o (IF book.positions >= max_open_positions
        THEN <<"Maximum open positions limit reached">> ELSE <<>>)

\* concentration > 0.30 of the total market value
check_concentration_limits(book) ==
  IF book.total_value > 0 /\ book.underlying_value * 10 > book.total_value * 3
    THEN <<"High concentration">> ELSE <<>>

check_daily_loss_limits(book) ==
  IF book.unrealized_pnl < -max_daily_loss
    THEN <<"Daily loss limit exceeded">> ELSE <<>>

\* _check_greeks_exposure comparing the signed delta with the limit
check_greeks_exposure_mut(book, contract, quantity, side) ==
  IF ~contract.has_greeks THEN <<"Greeks check error">>
  ELSE LET multiplier == IF side = "buy" THEN quantity ELSE -quantity
           new_delta == book.delta + contract.delta * multiplier
           new_vega == book.vega + contract.vega * multiplier
           new_theta == book.theta + contract.theta * multiplier
       IN (IF new_delta > max_portfolio_delta
             THEN <<"Portfolio delta limit exceeded">> ELSE <<>>)
          \o (IF Abs(new_vega) > max_vega_exposure
                THEN <<"Vega exposure limit exceeded">> ELSE <<>>)
          \o (IF new_theta < -max_theta_decay
                THEN <<"Theta decay limit exceeded">> ELSE <<>>)

\* a contract without Greeks makes None * Decimal raise inside the sub-check,
\* which returns the one message of its except branch
check_greeks_exposure(book, contract, quantity, side) ==
  IF ~contract.has_greeks THEN <<"Greeks check error">>
  ELSE LET multiplier == IF side = "buy" THEN quantity ELSE -quantity
           new_delta == book.delta + contract.delta * multiplier
           new_vega == book.vega + contract.vega * multiplier
           new_theta == book.theta + contract.theta * multiplier
       IN (IF Abs(new_delta) > max_portfolio_delta
             THEN <<"Portfolio delta limit exceeded">> ELSE <<>>)
          \o (IF Abs(new_vega) > max_vega_exposure
                THEN <<"Vega exposure limit exceeded">> ELSE <<>>)
          \o (IF new_theta < -max_theta_decay
                THEN <<"Theta decay limit exceeded">> ELSE <<>>)

check_expiration_risk(contract) ==
  (IF contract.expiry_days < min_days_to_expiry
     THEN <<"Option expires soon">> ELSE <<>>)
  \o (IF contract.expiry_weekend
        THEN <<"Option expires on weekend">> ELSE <<>>)

\* spread_pct > 0.10 with spread_pct = (ask - bid) / ask
check_liquidity_risk(contract) ==
  (IF contract.volume # None /\ contract.volume < 10
     THEN <<"Low volume">> ELSE <<>>)
  \o (IF contract.bid # None /\ contract.ask # None
         /\ contract.bid > 0 /\ contract.ask > 0
         /\ (contract.ask - contract.bid) * 10 > contract.ask
        THEN <<"Wide bid-ask spread">> ELSE <<>>)
  \o (IF contract.open_interest # None /\ contract.open_interest < 50
        THEN <<"Low open interest">> ELSE <<>>)

check_market_conditions(clock) ==
  (IF clock.weekend THEN <<"Trading on weekend">> ELSE <<>>)
  \o (IF ~clock.in_hours THEN <<"Trading outside regular market hours">> ELSE <<>>)

\* the verdict of check_trade_risk from the accumulated lists
risk_verdict_mut(errors, warnings) ==
  IF errors # <<>> THEN "rejected"
  ELSE IF Len(warnings) >= 3 THEN "requires_review"
  ELSE IF warnings # <<>> THEN "warning"
  ELSE "approved"

risk_verdict(errors, warnings) ==
  IF errors # <<>> THEN "rejected"
  ELSE IF Len(warnings) > 3 THEN "requires_review"
  ELSE IF warnings # <<>> THEN "warning"
  ELSE "approved"

\* _calculate_trade_risk_metrics: the first statement reads
\* contract.last_price, which OptionContract does not declare; the method's
\* own except branch returns the empty dict
calculate_trade_risk_metrics(contract) ==
  IF "last_price" \in OptionContractFields
    THEN {"trade_value", "position_size_percentage", "portfolio_value",
          "estimated_max_loss", "risk_reward_ratio", "probability_of_profit",
          "days_to_expiry", "liquidity_score"}
    ELSE {}

\* what check_trade_risk hands back: the verdict, the message list, the
\* metrics dict, with its local lists errors and warnings; raised tells that
\* the call ended with an exception instead
RiskReturn(result, errors, warnings, messages, metrics, raised) ==
  [result |-> result, errors |-> errors, warnings |-> warnings,
   messages |-> messages, metrics |-> metrics, raised |-> raised]

\* the seven sub-checks and the verdict: the body of the try block
risk_checks(book, account, clock, action, contract, quantity) ==
  LET errors == check_position_size_limits(book, account, quantity)
                \o check_daily_loss_limits(book)
      warnings == check_concentration_limits(book)
                  \o check_greeks_exposure(book, contract, quantity, action)
                  \o check_expiration_risk(contract)
                  \o check_liquidity_risk(contract)
                  \o check_market_conditions(clock)
  IN RiskReturn(risk_verdict(errors, warnings), errors, warnings,
                errors \o warnings, calculate_trade_risk_metrics(contract), FALSE)

\* check_trade_risk without its outer try/except
check_trade_risk_mut(book, account, clock, action, selected_contract, quantity) ==
  IF selected_contract = <<>>
    THEN RiskReturn("none", <<>>, <<>>, <<>>, {}, TRUE)
    ELSE risk_checks(book, account, clock, action, selected_contract[1], quantity)

\* check_trade_risk(signal, contract, quantity); the contract is <<c>>, or
\* <<>> for None, on which the first statement's contract.symbol raises
\* AttributeError at the outer try, outside every sub-check
check_trade_risk(book, account, clock, action, selected_contract, quantity) ==
  IF selected_contract = <<>>
    THEN RiskReturn("rejected", <<>>, <<>>, <<"Risk check error">>, {}, FALSE)
    ELSE risk_checks(book, account, clock, action, selected_contract[1], quantity)

\* ------------------------------------------------------ OrderStrategyService
\* _get_price_by_method(BID_ASK_MIDPOINT): without bid and ask the fallback
\* chain reads contract.last_price, which OptionContract does not declare, and
\* the except branch returns None
get_price_by_method(contract) ==
  IF contract.bid # None /\ contract.bid # 0 /\ contract.ask # None /\ contract.ask # 0
    THEN (contract.bid + contract.ask) \div 2
  ELSE IF "last_price" \in OptionContractFields THEN contract.ask
  ELSE None

\* create_order with OrderStrategy.LIMIT_MIDPOINT; <<>> stands for None.
\* The log line after the parameters are built reads signal.action.value
create_order(signal, contract, quantity) ==
  LET order_quantity == IF quantity # 0 THEN quantity ELSE signal.quantity
      order_price == get_price_by_method(contract)
  IN IF order_quantity = None \/ order_quantity <= 0 THEN <<>>
     ELSE IF order_price = None THEN <<>>
     ELSE IF ~HasValueAttribute(TradeSignalActionType) THEN <<>>
     ELSE <<[order_type |-> "limit", side |-> signal.action,
             quantity |-> order_quantity, price |-> order_price]>>

\* ---------------------------------------------- SignalProcessor executions
NoOrderId == "None"

\* client.place_order: an order id, or None when the broker refuses
place_order(b, order) == IF b.accepts THEN "order-id" ELSE NoOrderId

\* an execution's outcome: the result dict's status and order_id, the step the
\* execution stopped at, every place_order call it made with the id returned,
\* and whether the position book was updated
Outcome(signal, status, stage, order_id, placed, book_updated) ==
  [signal_id |-> signal.signal_id, action |-> signal.action,
   status |-> status, stage |-> stage, order_id |-> order_id,
   placed |-> placed, book_updated |-> book_updated]

\* services["position_manager"].update_position_after_order(...): the
\* attribute lookup raises AttributeError when PositionManager has no such
\* method
update_position_after_order_raises ==
  "update_position_after_order" \notin PositionManagerMethods

\* trade_signal.price or Decimal('150.00')
DefaultMarketPrice == 150
current_market_price(trade_signal) ==
  IF trade_signal.price # None /\ trade_signal.price # 0
    THEN trade_signal.price ELSE DefaultMarketPrice

\* _execute_option_trade placing the order first and checking afterwards
execute_option_trade_mut(trade_signal, b, book) ==
  LET order == [symbol |-> trade_signal.symbol, order_type |-> "market",
                side |-> trade_signal.action, quantity |-> trade_signal.quantity]
      placed == <<[order |-> order, order_id |-> place_order(b, order)]>>
  IN IF get_option_chain(client_get_option_chain(b)) = <<>>
       THEN Outcome(trade_signal, "failed", "option_chain", NoOrderId, placed, FALSE)
       ELSE Outcome(trade_signal, "processed", "done", placed[1].order_id, placed, FALSE)

\* _execute_option_trade: every raise inside is re-raised as
\* SignalProcessingError, which _process_single_signal turns into "failed"
execute_option_trade(trade_signal, b, book) ==
  LET account == trade_signal.account_name
      option_chain == get_option_chain(client_get_option_chain(b))
      selected == select_option_contract(trade_signal, option_chain,
                                         current_market_price(trade_signal))
      contract == selected[1]
      suggested_quantity == suggest_position_sizing(book, account, trade_signal.quantity)
      risk == check_trade_risk(book, account, b.clock, trade_signal.action,
                               selected, suggested_quantity)
      order_params == create_order(trade_signal, contract, suggested_quantity)
      order == [symbol |-> <<trade_signal.symbol, contract.option_type, contract.strike>>,
                order_type |-> order_params[1].order_type,
                side |-> order_params[1].side,
                quantity |-> order_params[1].quantity]
      order_id == place_order(b, order)
      placed == <<[order |-> order, order_id |-> order_id]>>
  IN IF option_chain = <<>>
       THEN Outcome(trade_signal, "failed", "option_chain", NoOrderId, <<>>, FALSE)
     ELSE IF selected = <<>>
       THEN Outcome(trade_signal, "failed", "option_selection", NoOrderId, <<>>, FALSE)
     ELSE IF risk.result = "rejected"
       THEN Outcome(trade_signal, "failed", "risk_check", NoOrderId, <<>>, FALSE)
     ELSE IF order_params = <<>>
       THEN Outcome(trade_signal, "failed", "order_creation", NoOrderId, <<>>, FALSE)
     ELSE IF order_id = NoOrderId
       THEN Outcome(trade_signal, "failed", "place_order", NoOrderId, placed, FALSE)
     ELSE IF update_position_after_order_raises
       THEN Outcome(trade_signal, "failed", "position_update", NoOrderId, placed, FALSE)
     ELSE Outcome(trade_signal, "processed", "done", order_id, placed, TRUE)

\* trade_signal.symbol in position.get('symbol', '')
symbol_in(sub, s) == sub = "" \/ sub = s \/ (sub = "AAPL" /\ s = OptionSymbol)

\* the loop shared by the two close executions: one market order per position
\* with abs(quantity) > 0; the records carry no 'side' key, so
\* position.get('side', 'long') is 'long' and the close side is SELL. The
\* first order the broker accepts is followed by the position-book call
close_loop(b, positions) ==
  LET F[i \in 0..Len(positions)] ==
        IF i = 0 THEN [placed |-> <<>>, raised |-> FALSE, updated |-> FALSE]
        ELSE LET prev == F[i - 1]
                 position_quantity == Abs(positions[i].quantity)
                 order == [symbol |-> positions[i].symbol, order_type |-> "market",
                           side |-> "sell", quantity |-> position_quantity]
                 order_id == place_order(b, order)
                 call == [order |-> order, order_id |-> order_id]
             IN IF prev.raised \/ position_quantity <= 0 THEN prev
                ELSE IF order_id = NoOrderId
                  THEN [prev EXCEPT !.placed = Append(@, call)]
                ELSE IF update_position_after_order_raises
                  THEN [prev EXCEPT !.placed = Append(@, call), !.raised = TRUE]
                ELSE [prev EXCEPT !.placed = Append(@, call), !.updated = TRUE]
  IN F[Len(positions)]

close_outcome(trade_signal, loop) ==
  IF loop.raised
    THEN Outcome(trade_signal, "failed", "position_update", NoOrderId, loop.placed, FALSE)
    ELSE Outcome(trade_signal, "processed", "done", NoOrderId, loop.placed, loop.updated)

\* _execute_close_position
execute_close_position(trade_signal, b) ==
  LET positions == b.positions
      symbol_positions ==
        SelectSeq(positions, LAMBDA p : symbol_in(trade_signal.symbol, p.symbol))
  IN IF positions = <<>>
       THEN Outcome(trade_signal, "processed", "no_positions", NoOrderId, <<>>, FALSE)
     ELSE IF ~HasGetMethod(ClientPositionType)
       THEN Outcome(trade_signal, "failed", "positions_read", NoOrderId, <<>>, FALSE)
     ELSE IF symbol_positions = <<>>
       THEN Outcome(trade_signal, "processed", "no_positions", NoOrderId, <<>>, FALSE)
     ELSE close_outcome(trade_signal, close_loop(b, symbol_positions))

\* _execute_close_all_positions
execute_close_all_positions(trade_signal, b) ==
  LET positions == b.positions
  IN IF positions = <<>>
       THEN Outcome(trade_signal, "processed", "no_positions", NoOrderId, <<>>, FALSE)
     ELSE IF ~HasGetMethod(ClientPositionType)
       THEN Outcome(trade_signal, "failed", "positions_read", NoOrderId, <<>>, FALSE)
     ELSE close_outcome(trade_signal, close_loop(b, positions))

\* _process_single_signal reporting a failure with the status "error"
process_single_signal_mut(trade_signal, account_state, b, book) ==
  IF account_state[trade_signal.account_name] # "enabled"
    THEN Outcome(trade_signal, "error", "client", NoOrderId, <<>>, FALSE)
  ELSE IF trade_signal.action \in {"buy", "sell"}
    THEN [execute_option_trade(trade_signal, b, book) EXCEPT !.status = "error"]
  ELSE IF trade_signal.action = "close"
    THEN execute_close_position(trade_signal, b)
  ELSE execute_close_all_positions(trade_signal, b)

\* _process_single_signal after the status was set to "processing":
\* auth_service.get_client returns None unless the account is enabled
process_single_signal(trade_signal, account_state, b, book) ==
  IF account_state[trade_signal.account_name] # "enabled"
    THEN Outcome(trade_signal, "failed", "client", NoOrderId, <<>>, FALSE)
  ELSE IF trade_signal.action \in {"buy", "sell"}
    THEN execute_option_trade(trade_signal, b, book)
  ELSE IF trade_signal.action = "close"
    THEN execute_close_position(trade_signal, b)
  ELSE IF trade_signal.action = "close_all"
    THEN execute_close_all_positions(trade_signal, b)
  ELSE Outcome(trade_signal, "failed", "unknown_action", NoOrderId, <<>>, FALSE)

\* the status _process_single_signal records when it returns a retried signal
final_status_mut(result) ==
  IF result.status = "processed" THEN "completed" ELSE "queued"

\* the status _process_single_signal records when it returns
final_status(result) ==
  IF result.status = "processed" THEN "completed" ELSE "failed"

\* ------------------------------------------------------------------ state
VARIABLES
  orchestrator,       \* the processor object the run drives
  accountState,       \* AuthService: per account enabled / disabled / absent
  broker,             \* the broker behind the accounts' clients
  queue,              \* SignalProcessor._processing_queue
  status,             \* SignalProcessor._processing_status ("none": no key)
  accountServices,    \* _account_services: the bundle cached for each account
  pc,                 \* "idle", or "draining" inside process_queued_signals
  current,            \* the signal popped and not yet executed, as <<signal>>
  results,            \* local results of the running drain
  processed_count,    \* local of the running drain
  failed_count,       \* local of the running drain
  queue_at_call,      \* history: the queue when the running drain was called
  lastReturn,         \* what the last completed call returned
  op,                 \* history: the handler step taken last
  signal_queue,       \* EnhancedSignalProcessor.signal_queue
  processed_signals,  \* EnhancedSignalProcessor.processed_signals, by status
  nextUuid,           \* the next uuid4 value
  riskIn,             \* arguments of a check_trade_risk call
  riskOut,            \* what that call returned
  args,               \* arguments of a call of one of the stateless services
  returned,           \* what that call returned
  inflight            \* the drains of concurrent requests, and their history

vars ==
  <<orchestrator, accountState, broker, queue, status, accountServices, pc,
    current, results, processed_count, failed_count, queue_at_call, lastReturn,
    op, signal_queue, processed_signals, nextUuid, riskIn, riskOut, args,
    returned, inflight>>

basicVars ==
  <<queue, status, accountServices, pc, current, results, processed_count,
    failed_count, queue_at_call>>
enhancedVars == <<signal_queue, processed_signals, nextUuid>>
riskVars == <<riskIn, riskOut>>
callVars == <<args, returned, inflight>>

\* a service bundle is known by the identity of the objects constructed for
\* it (its PositionManager); NoBundle is None, and no entry in the cache
NoBundle == 0

\* a bundle constructed now is an object distinct from every cached one
new_bundle(services) ==
  1 + CHOOSE n \in {services[a] : a \in Accounts} :
        \A a \in Accounts : services[a] <= n

\* a getter that constructs the bundle on every call
get_account_services_mut(services, account_state, account) ==
  IF account_state[account] = "absent"
    THEN [bundle |-> NoBundle, cache |-> services]
    ELSE [bundle |-> new_bundle(services),
          cache |-> [services EXCEPT ![account] = new_bundle(services)]]

\* _get_account_services: the cached bundle, or a bundle constructed and
\* cached when AuthService has a configuration for the account, or None
get_account_services(services, account_state, account) ==
  IF services[account] # NoBundle
    THEN [bundle |-> services[account], cache |-> services]
  ELSE IF account_state[account] = "absent"
    THEN [bundle |-> NoBundle, cache |-> services]
  ELSE [bundle |-> new_bundle(services),
        cache |-> [services EXCEPT ![account] = new_bundle(services)]]

\* account tables a configuration file can hold
Configurations ==
  { [a \in Accounts |-> "enabled"],
    [a \in Accounts |-> IF a = "account_1" THEN "disabled" ELSE "enabled"],
    [a \in Accounts |-> IF a = "account_1" THEN "absent" ELSE "enabled"] }

\* the calls the callers make: raw signal, account name, request id
Requests ==
  { [signal |-> BuySignal, account |-> "account_1", request_id |-> "req-1"],
    [signal |-> CloseSignal, account |-> "account_1", request_id |-> "req-2"],
    [signal |-> CloseAllSignal, account |-> "account_2", request_id |-> "req-1"],
    [signal |-> SellSignal, account |-> "account_2", request_id |-> "req-2"],
    [signal |-> BlankSymbolSignal, account |-> "account_1", request_id |-> "req-1"],
    [signal |-> OversizeSignal, account |-> "account_1", request_id |-> "req-2"] }

\* PositionManager._positions is filled only by update_positions, which no
\* processor calls: the book of every account is the empty one
position_book(account) == EmptyBook

NoReturn == [op |-> "none"]
NoCall == [fn |-> "none"]

\* the requests that can be inside process_queued_signals at once, and the
\* locals of a request that has not called it
Drains == {1, 2}
NoDrain == [pc |-> "idle", began_with |-> <<>>, batch |-> <<>>,
            results |-> <<>>, lost |-> <<>>]
NoDrains == [enqueued |-> <<>>, drains |-> [d \in Drains |-> NoDrain]]
NoVerdict == RiskReturn("none", <<>>, <<>>, <<>>, {}, FALSE)
NoRiskInput ==
  [book |-> EmptyBook, account |-> "account_1",
   clock |-> [weekend |-> FALSE, in_hours |-> TRUE], action |-> "buy",
   contract |-> <<parse_contract(MockChain(30)[3])>>, quantity |-> 1]

InitProcessors ==
  /\ accountState \in Configurations
  /\ broker \in Brokers
  /\ queue = <<>>
  /\ status = [id \in SignalIds |-> "none"]
  /\ accountServices = [a \in Accounts |-> NoBundle]
  /\ pc = "idle"
  /\ current = <<>>
  /\ results = <<>>
  /\ processed_count = 0
  /\ failed_count = 0
  /\ queue_at_call = <<>>
  /\ lastReturn = NoReturn
  /\ op = "init"
  /\ signal_queue = <<>>
  /\ processed_signals = [u \in Uuids |-> "none"]
  /\ nextUuid = 1

Init ==
  /\ orchestrator \in {"SignalProcessor", "EnhancedSignalProcessor"}
  /\ InitProcessors
  /\ riskIn = NoRiskInput
  /\ riskOut = NoVerdict
  /\ args = NoCall
  /\ returned = NoCall
  /\ inflight = NoDrains

\* ------------------------------------------------- SignalProcessor handlers
\* process_webhook_signal enqueueing whatever the validator said
accepted_mut(validation_result) == TRUE

\* process_webhook_signal / process_signal: "if not validation_result.is_valid"
\* returns before the signal is converted and queued
accepted(validation_result) == validation_result.is_valid

\* a submission answered "accepted" whatever happened to the signal
SubmitReturn_mut(name, signal_id, st, validated, is_valid) ==
  [op |-> name, signal_id |-> signal_id, status |-> "accepted",
   validated |-> validated, is_valid |-> is_valid]

\* the dict a submission returns: signal_id and status, and what the
\* validator said
SubmitReturn(name, signal_id, st, validated, is_valid) ==
  [op |-> name, signal_id |-> signal_id, status |-> st,
   validated |-> validated, is_valid |-> is_valid]

\* validate_and_process_signal(signal, account_name, request_id), with the
\* process_webhook_signal and _queue_signal_for_processing it awaits
validate_and_process_signal(req) ==
  LET validation_result == validate_signal(req.signal, req.account)
      trade_signal == convert_to_trade_signal(req.signal, req.account, req.request_id)
  IN /\ orchestrator = "SignalProcessor"
     /\ pc = "idle"
     /\ op' = "validate_and_process_signal"
     /\ IF accountState[req.account] # "enabled"
          THEN /\ lastReturn' = SubmitReturn("validate_and_process_signal",
                                             req.request_id, "raised", FALSE, FALSE)
               /\ UNCHANGED <<queue, status>>
        ELSE IF ~accepted(validation_result)
          THEN /\ lastReturn' = SubmitReturn("validate_and_process_signal",
                                             req.request_id, "validation_failed",
                                             TRUE, validation_result.is_valid)
               /\ UNCHANGED <<queue, status>>
        ELSE /\ Len(queue) < MaxQueue
             /\ queue' = Append(queue, trade_signal)
             /\ status' = [status EXCEPT ![trade_signal.signal_id] = "queued"]
             /\ lastReturn' = SubmitReturn("validate_and_process_signal",
                                           req.request_id, "queued",
                                           TRUE, validation_result.is_valid)
     /\ UNCHANGED <<orchestrator, accountState, broker, accountServices, pc,
                    current, results, processed_count, failed_count,
                    queue_at_call, enhancedVars, riskVars, callVars>>

\* process_queued_signals, entry: the locals are initialised
DrainBegin ==
  /\ orchestrator = "SignalProcessor"
  /\ pc = "idle"
  /\ pc' = "draining"
  /\ results' = <<>>
  /\ processed_count' = 0
  /\ failed_count' = 0
  /\ queue_at_call' = queue
  /\ op' = "drain_begin"
  /\ UNCHANGED <<orchestrator, accountState, broker, queue, status,
                 accountServices, current, lastReturn, enhancedVars, riskVars, callVars>>

\* a drain that stops at the first failed result
loop_condition_mut(q, res) ==
  q # <<>> /\ \A i \in 1..Len(res) : res[i].status = "processed"

\* "while self._processing_queue": only the queue is tested, whatever the
\* results collected so far
loop_condition(q, res) == q # <<>>

\* pop() instead of pop(0)
dequeue_mut(q) == [item |-> q[Len(q)], rest |-> SubSeq(q, 1, Len(q) - 1)]

\* trade_signal = self._processing_queue.pop(0)
dequeue(q) == [item |-> Head(q), rest |-> Tail(q)]

\* loop head: pop the first signal; _process_single_signal marks it processing
DrainPop ==
  /\ pc = "draining"
  /\ current = <<>>
  /\ loop_condition(queue, results)
  /\ current' = <<dequeue(queue).item>>
  /\ queue' = dequeue(queue).rest
  /\ status' = [status EXCEPT ![dequeue(queue).item.signal_id] = "processing"]
  /\ op' = "drain_pop"
  /\ UNCHANGED <<orchestrator, accountState, broker, accountServices, pc,
                 results, processed_count, failed_count, queue_at_call,
                 lastReturn, enhancedVars, riskVars, callVars>>

\* counting only results with status "error" as failed
count_result_mut(result, processed, failed) ==
  IF result.status = "processed"
    THEN [processed |-> processed + 1, failed |-> failed]
  ELSE IF result.status = "error"
    THEN [processed |-> processed, failed |-> failed + 1]
  ELSE [processed |-> processed, failed |-> failed]

\* if result["status"] == "processed": processed_count += 1, else failed_count += 1
count_result(result, processed, failed) ==
  IF result.status = "processed"
    THEN [processed |-> processed + 1, failed |-> failed]
    ELSE [processed |-> processed, failed |-> failed + 1]

\* loop body: the rest of _process_single_signal and the bookkeeping of the
\* loop; the three executions create the account's service bundle first
DrainExecute ==
  /\ pc = "draining"
  /\ current # <<>>
  /\ LET trade_signal == current[1]
         result == process_single_signal(trade_signal, accountState, broker,
                                         position_book(trade_signal.account_name))
         counts == count_result(result, processed_count, failed_count)
     IN /\ status' = [status EXCEPT ![trade_signal.signal_id] = final_status(result)]
        /\ results' = Append(results, result)
        /\ processed_count' = counts.processed
        /\ failed_count' = counts.failed
        /\ accountServices' =
             IF accountState[trade_signal.account_name] = "enabled"
               THEN get_account_services(accountServices, accountState,
                                         trade_signal.account_name).cache
               ELSE accountServices
  /\ current' = <<>>
  /\ op' = "drain_execute"
  /\ UNCHANGED <<orchestrator, accountState, broker, queue, pc, queue_at_call,
                 lastReturn, enhancedVars, riskVars, callVars>>

\* loop exit: the summary is returned and the locals die
DrainReturn ==
  /\ pc = "draining"
  /\ current = <<>>
  /\ ~loop_condition(queue, results)
  /\ lastReturn' = [op |-> "process_queued_signals",
                    processed_count |-> processed_count,
                    failed_count |-> failed_count,
                    total_count |-> processed_count + failed_count,
                    results |-> results,
                    queue_at_call |-> queue_at_call]
  /\ pc' = "idle"
  /\ results' = <<>>
  /\ processed_count' = 0
  /\ failed_count' = 0
  /\ queue_at_call' = <<>>
  /\ op' = "drain_return"
  /\ UNCHANGED <<orchestrator, accountState, broker, queue, status,
                 accountServices, current, enhancedVars, riskVars, callVars>>

\* a clearing that also forgets the signals still waiting
clear_completed_signals_mut ==
  /\ orchestrator = "SignalProcessor"
  /\ pc = "idle"
  /\ status' = [id \in SignalIds |->
                  IF status[id] \in {"completed", "failed", "queued"}
                    THEN "none" ELSE status[id]]
  /\ lastReturn' = [op |-> "clear_completed_signals",
                    count |-> Cardinality({id \in SignalIds :
                                             status[id] \in {"completed", "failed"}})]
  /\ op' = "clear_completed_signals"
  /\ UNCHANGED <<orchestrator, accountState, broker, queue, accountServices, pc,
                 current, results, processed_count, failed_count, queue_at_call,
                 enhancedVars, riskVars, callVars>>

\* clear_completed_signals: the keys with a completed or failed status are
\* deleted from _processing_status
clear_completed_signals ==
  /\ orchestrator = "SignalProcessor"
  /\ pc = "idle"
  /\ status' = [id \in SignalIds |->
                  IF status[id] \in {"completed", "failed"} THEN "none" ELSE status[id]]
  /\ lastReturn' = [op |-> "clear_completed_signals",
                    count |-> Cardinality({id \in SignalIds :
                                             status[id] \in {"completed", "failed"}})]
  /\ op' = "clear_completed_signals"
  /\ UNCHANGED <<orchestrator, accountState, broker, queue, accountServices, pc,
                 current, results, processed_count, failed_count, queue_at_call,
                 enhancedVars, riskVars, callVars>>

\* datetime.now().isoformat() as two calls can read it
Timestamps == {"t1", "t2"}

\* the signal ids _processing_status has a key for
tracked(st) == {id \in SignalIds : st[id] # "none"}

\* status_counts[status] = status_counts.get(status, 0) + 1 over the values
status_counts(st) ==
  [s \in {st[id] : id \in tracked(st)} |->
     Cardinality({id \in tracked(st) : st[id] = s})]

\* get_signal_status(signal_id): dict.get, "none" standing for None
get_signal_status(signal_id) ==
  /\ orchestrator = "SignalProcessor"
  /\ pc = "idle"
  /\ lastReturn' = [op |-> "get_signal_status", signal_id |-> signal_id,
                    status |-> status[signal_id]]
  /\ op' = "get_signal_status"
  /\ UNCHANGED <<orchestrator, accountState, broker, basicVars, enhancedVars,
                 riskVars, callVars>>

\* a get_queue_status that forgets the finished signals it has counted
get_queue_status_mut ==
  /\ orchestrator = "SignalProcessor"
  /\ pc = "idle"
  /\ \E t \in Timestamps :
       lastReturn' = [op |-> "get_queue_status",
                      queue_length |-> Len(queue),
                      total_signals |-> Cardinality(tracked(status)),
                      status_counts |-> status_counts(status),
                      timestamp |-> t]
  /\ status' = [id \in SignalIds |->
                  IF status[id] \in {"completed", "failed"} THEN "none" ELSE status[id]]
  /\ op' = "get_queue_status"
  /\ UNCHANGED <<orchestrator, accountState, broker, queue, accountServices, pc,
                 current, results, processed_count, failed_count, queue_at_call,
                 enhancedVars, riskVars, callVars>>

get_queue_status ==
  /\ orchestrator = "SignalProcessor"
  /\ pc = "idle"
  /\ \E t \in Timestamps :
       lastReturn' = [op |-> "get_queue_status",
                      queue_length |-> Len(queue),
                      total_signals |-> Cardinality(tracked(status)),
                      status_counts |-> status_counts(status),
                      timestamp |-> t]
  /\ op' = "get_queue_status"
  /\ UNCHANGED <<orchestrator, accountState, broker, basicVars, enhancedVars,
                 riskVars, callVars>>

\* (completed_count / total_signals) * 100, in hundredths of a percent
success_rate(st) ==
  LET total_signals == Cardinality(tracked(st))
      completed_count == Cardinality({id \in tracked(st) : st[id] = "completed"})
  IN IF total_signals > 0 THEN (completed_count * 10000) \div total_signals ELSE 0

\* get_processing_statistics: without tracked signals the early return has
\* no timestamp
get_processing_statistics ==
  /\ orchestrator = "SignalProcessor"
  /\ pc = "idle"
  /\ \E t \in Timestamps :
       lastReturn' = [op |-> "get_processing_statistics",
                      total_signals |-> Cardinality(tracked(status)),
                      success_rate |-> success_rate(status),
                      status_breakdown |-> status_counts(status),
                      queue_length |-> Len(queue),
                      timestamp |-> IF tracked(status) = {} THEN "absent" ELSE t]
  /\ op' = "get_processing_statistics"
  /\ UNCHANGED <<orchestrator, accountState, broker, basicVars, enhancedVars,
                 riskVars, callVars>>

\* AuthService.reload_configuration: another account table is loaded
reload_configuration(configuration) ==
  /\ pc = "idle"
  /\ accountState' = configuration
  /\ op' = "reload_configuration"
  /\ UNCHANGED <<orchestrator, broker, basicVars, lastReturn, enhancedVars, riskVars, callVars>>

\* ------------------------------------------------------------ HTTP routes
\* Decimal(text) of the numeric strings a payload carries
Decimal(text) ==
  CASE text = "0" -> 0
    [] text = "5" -> 5
    [] text = "12" -> 12
    [] text = "150" -> 150

PositionSides == {"long", "short", "flat"}

\* WebhookSignalPayload.is_closing_position
is_closing_position(payload) ==
  payload.prev_market_position # "flat" /\ payload.market_position = "flat"

\* WebhookSignalPayload.is_reversing_position
is_reversing_position(payload) ==
  /\ payload.prev_market_position # "flat"
  /\ payload.market_position # "flat"
  /\ payload.prev_market_position # payload.market_position

\* a conversion that keeps the payload's side whatever the positions say
payload_action_mut(payload) ==
  IF payload.side = "buy" THEN "buy" ELSE "sell"

\* the action convert_deribit_payload_to_signal derives
payload_action(payload) ==
  IF is_closing_position(payload) THEN "close"
  ELSE IF is_reversing_position(payload)
    THEN (IF payload.market_position = "long" THEN "buy" ELSE "sell")
  ELSE IF payload.side = "buy" THEN "buy" ELSE "sell"

\* convert_deribit_payload_to_signal: the WebhookSignal built from a payload
convert_deribit_payload_to_signal(payload) ==
  [symbol |-> payload.symbol,
   action |-> payload_action(payload),
   quantity |-> Decimal(payload.size),
   price |-> Decimal(payload.price),
   stop_price |-> None,
   order_type |-> "market",
   time_in_force |-> "day"]

\* AuthService.is_account_valid: configured, enabled, and with a usable key
\* (every configured account of the model has one)
is_account_valid(account_state, account_name) ==
  account_state[account_name] = "enabled"

\* request ids are drawn per request (a millisecond stamp, a uuid4): one that
\* no tracked or queued signal carries
fresh_ids ==
  {id \in SignalIds :
     status[id] = "none" /\ \A i \in 1..Len(queue) : queue[i].signal_id # id}

\* what process_queued_signals returns as results for the queue q, and the
\* status map it leaves: the last signal executed under an id decides
drain_results(q, account_state, b) ==
  [i \in 1..Len(q) |->
     process_single_signal(q[i], account_state, b, position_book(q[i].account_name))]

drain_status(q, res, st) ==
  [id \in SignalIds |->
     LET hits == {i \in 1..Len(q) : q[i].signal_id = id}
     IN IF hits = {} THEN st[id]
        ELSE final_status(res[CHOOSE i \in hits : \A j \in hits : j <= i])]

RECURSIVE drain_services(_, _, _)
drain_services(q, account_state, services) ==
  IF q = <<>> THEN services
  ELSE drain_services(Tail(q), account_state,
         IF account_state[Head(q).account_name] = "enabled"
           THEN get_account_services(services, account_state,
                                     Head(q).account_name).cache
           ELSE services)

\* "for res in results: if res.get('signal_id') == result.get('signal_id')"
find_result(res, signal_id) ==
  res[CHOOSE i \in 1..Len(res) :
        /\ res[i].signal_id = signal_id
        /\ \A j \in 1..(i - 1) : res[j].signal_id # signal_id]

\* an HTTP answer: a JSON envelope with success flag and message, or the
\* framework's {"detail": ...} body under an error status; outcome and
\* execution record what happened to the request and to its signal
ApiResponse(name, success, error, outcome, signal_id, execution) ==
  [op |-> name, http_status |-> 200, envelope |-> TRUE, success |-> success,
   error |-> error, outcome |-> outcome, signal_id |-> signal_id,
   execution |-> execution]

HTTPException(name, http_status, outcome) ==
  [op |-> name, http_status |-> http_status, envelope |-> FALSE,
   success |-> FALSE, error |-> "detail", outcome |-> outcome,
   signal_id |-> "none", execution |-> "none"]

\* main.validation_exception_handler: the envelope for the path
\* /webhook/signal only, FastAPI's 422 body for every other path
validation_exception_handler(name, path) ==
  IF path = "/webhook/signal"
    THEN ApiResponse(name, FALSE, "Validation failed", "invalid_body", "none", "none")
    ELSE HTTPException(name, 422, "invalid_body")

\* the answer of receive_deribit_style_signal after the immediate drain: the
\* success branch needs the result status "executed"; otherwise the message
\* is signal_result.get("error"), which a processed result does not have,
\* so that ApiResponse(message=None) raises and the inner except answers
deribit_response(name, signal_id, signal_result) ==
  IF signal_result.status = "executed"
    THEN ApiResponse(name, TRUE, "none", "queued", signal_id, signal_result.status)
  ELSE IF signal_result.status = "failed"
    THEN ApiResponse(name, FALSE, "Trading failed", "queued", signal_id,
                     signal_result.status)
  ELSE ApiResponse(name, FALSE, "Processing error", "queued", signal_id,
                   signal_result.status)

\* Shape-A payloads posted to /webhook/signal; well_formed tells whether the
\* body passes the WebhookSignalPayload model
Payloads ==
  { [account_name |-> "account_1", side |-> "buy", market_position |-> "long",
     prev_market_position |-> "flat", symbol |-> "AAPL", price |-> "150",
     size |-> "5", well_formed |-> TRUE],
    [account_name |-> "account_1", side |-> "sell", market_position |-> "flat",
     prev_market_position |-> "long", symbol |-> "AAPL", price |-> "150",
     size |-> "5", well_formed |-> TRUE],
    [account_name |-> "account_1", side |-> "buy", market_position |-> "long",
     prev_market_position |-> "flat", symbol |-> "AAPL", price |-> "150",
     size |-> "12", well_formed |-> TRUE],
    [account_name |-> "account_1", side |-> "buy", market_position |-> "long",
     prev_market_position |-> "flat", symbol |-> "AAPL", price |-> "150",
     size |-> "5", well_formed |-> FALSE] }

\* POST /webhook/signal
receive_deribit_style_signal(payload) ==
  LET name == "receive_deribit_style_signal"
      internal_signal == convert_deribit_payload_to_signal(payload)
      validation_result == validate_signal(internal_signal, payload.account_name)
  IN /\ orchestrator = "SignalProcessor"
     /\ pc = "idle"
     /\ op' = name
     /\ IF ~payload.well_formed
          THEN /\ lastReturn' = validation_exception_handler(name, "/webhook/signal")
               /\ UNCHANGED <<queue, status, accountServices>>
        ELSE IF ~is_account_valid(accountState, payload.account_name)
          THEN /\ lastReturn' = ApiResponse(name, FALSE, "Invalid account",
                                            "invalid_account", "none", "none")
               /\ UNCHANGED <<queue, status, accountServices>>
        ELSE \E request_id \in fresh_ids :
               IF ~accepted(validation_result)
                 THEN /\ lastReturn' = ApiResponse(name, FALSE, "validation errors",
                                                   "validation_failed", request_id,
                                                   "none")
                      /\ UNCHANGED <<queue, status, accountServices>>
                 ELSE LET trade_signal ==
                            convert_to_trade_signal(internal_signal,
                                                    payload.account_name, request_id)
                          q == Append(queue, trade_signal)
                          res == drain_results(q, accountState, broker)
                      IN /\ Len(queue) < MaxQueue
                         /\ queue' = <<>>
                         /\ status' = drain_status(q, res, status)
                         /\ accountServices' =
                              drain_services(q, accountState, accountServices)
                         /\ lastReturn' =
                              deribit_response(name, request_id,
                                               find_result(res, request_id))
     /\ UNCHANGED <<orchestrator, accountState, broker, pc, current, results,
                    processed_count, failed_count, queue_at_call, enhancedVars,
                    riskVars, callVars>>

\* requests posted to /webhook/signal/{account_name}; well_formed tells
\* whether the body passes the WebhookSignal model
SignalRequests ==
  { [account_name |-> "account_1", signal |-> BuySignal, well_formed |-> TRUE],
    [account_name |-> "account_1", signal |-> CloseAllSignal, well_formed |-> TRUE],
    [account_name |-> "account_1", signal |-> OversizeSignal, well_formed |-> TRUE],
    [account_name |-> "account_1", signal |-> BuySignal, well_formed |-> FALSE] }

\* POST /webhook/signal/{account_name}: the dependency
\* validate_account_dependency raises HTTPException before the body is
\* looked at; the handler answers success=True whatever the drain reported
receive_trading_signal(request) ==
  LET name == "receive_trading_signal"
      validation_result == validate_signal(request.signal, request.account_name)
  IN /\ orchestrator = "SignalProcessor"
     /\ pc = "idle"
     /\ op' = name
     /\ IF accountState[request.account_name] = "absent"
          THEN /\ lastReturn' = HTTPException(name, 404, "invalid_account")
               /\ UNCHANGED <<queue, status, accountServices>>
        ELSE IF accountState[request.account_name] = "disabled"
          THEN /\ lastReturn' = HTTPException(name, 403, "invalid_account")
               /\ UNCHANGED <<queue, status, accountServices>>
        ELSE IF ~request.well_formed
          THEN /\ lastReturn' =
                    validation_exception_handler(name, "/webhook/signal/{account_name}")
               /\ UNCHANGED <<queue, status, accountServices>>
        ELSE \E request_id \in fresh_ids :
               IF ~accepted(validation_result)
                 THEN /\ lastReturn' = ApiResponse(name, FALSE, "validation errors",
                                                   "validation_failed", request_id,
                                                   "none")
                      /\ UNCHANGED <<queue, status, accountServices>>
                 ELSE LET trade_signal ==
                            convert_to_trade_signal(request.signal,
                                                    request.account_name, request_id)
                          q == Append(queue, trade_signal)
                          res == drain_results(q, accountState, broker)
                      IN /\ Len(queue) < MaxQueue
                         /\ queue' = <<>>
                         /\ status' = drain_status(q, res, status)
                         /\ accountServices' =
                              drain_services(q, accountState, accountServices)
                         /\ lastReturn' =
                              ApiResponse(name, TRUE, "none", "queued", request_id,
                                          find_result(res, request_id).status)
     /\ UNCHANGED <<orchestrator, accountState, broker, pc, current, results,
                    processed_count, failed_count, queue_at_call, enhancedVars,
                    riskVars, callVars>>

\* ------------------------------------------------- EnhancedSignalProcessor
\* EnhancedSignalProcessor._get_option_chain: the ten OptionContract objects
\* are built inside one try, so the first construction that raises empties
\* the chain
enhanced_get_option_chain(b) ==
  IF OptionContractConstructs(ChainContractKwargs)
    THEN [i \in 1..10 |-> parse_contract(MockChain(b.days)[i])]
    ELSE <<>>

\* OrderStrategyService.validate_order_parameters on a limit order
validate_order_parameters_of(order, account) ==
  (IF order.quantity <= 0 THEN <<"Quantity must be positive">>
   ELSE IF order.quantity > max_position_size(account)
     THEN <<"Quantity exceeds max position size">> ELSE <<>>)
  \o (IF order.price = None THEN <<"Price required for limit orders">>
      ELSE IF order.price <= 0 THEN <<"Price must be positive">> ELSE <<>>)

\* the stages of _process_trading_pipeline, in the order of the code
PipelineStages ==
  <<"option_chain_retrieval", "option_selection", "position_sizing",
    "risk_check", "order_creation", "order_validation">>

\* the dict a failing stage returns: the stages up to it have run
pipeline_failure(n) ==
  [success |-> FALSE, step |-> PipelineStages[n],
   stages |-> SubSeq(PipelineStages, 1, n)]

\* a pipeline that goes on to the selection when the chain is empty
process_trading_pipeline_mut(trade_signal, b, book) ==
  LET account == trade_signal.account_name
      option_chain == enhanced_get_option_chain(b)
      selected == select_option_contract(trade_signal, option_chain,
                                         current_market_price(trade_signal))
  IN IF selected = <<>> THEN pipeline_failure(2)
     ELSE [success |-> TRUE, step |-> "done", stages |-> PipelineStages,
           selected_contract |-> selected[1],
           suggested_quantity |-> trade_signal.quantity,
           risk_result |-> "approved", order_params |-> None]

\* _process_trading_pipeline: the plan computed before queueing; position
\* sizing has no failing return
process_trading_pipeline(trade_signal, b, book) ==
  LET account == trade_signal.account_name
      option_chain == enhanced_get_option_chain(b)
      selected == select_option_contract(trade_signal, option_chain,
                                         current_market_price(trade_signal))
      contract == selected[1]
      suggested_quantity == suggest_position_sizing(book, account, trade_signal.quantity)
      risk == check_trade_risk(book, account, b.clock, trade_signal.action,
                               selected, suggested_quantity)
      order_params == create_order(trade_signal, contract, suggested_quantity)
  IN IF option_chain = <<>> THEN pipeline_failure(1)
     ELSE IF selected = <<>> THEN pipeline_failure(2)
     ELSE IF risk.result = "rejected" THEN pipeline_failure(4)
     ELSE IF order_params = <<>> THEN pipeline_failure(5)
     ELSE IF validate_order_parameters_of(order_params[1], account) # <<>>
       THEN pipeline_failure(6)
     ELSE [success |-> TRUE, step |-> "done", stages |-> PipelineStages,
           selected_contract |-> contract,
           suggested_quantity |-> suggested_quantity,
           risk_result |-> risk.result,
           order_params |-> order_params[1]]

\* process_signal(webhook_signal, account_name); _get_account_services
\* creates the bundle of an account the configuration knows
process_signal(req) ==
  LET signal_id == nextUuid
      services == get_account_services(accountServices, accountState, req.account)
      has_services == services.bundle # NoBundle
      validation_result == validate_signal(req.signal, req.account)
      trade_signal == convert_to_trade_signal(req.signal, req.account, signal_id)
      processing_result == process_trading_pipeline(trade_signal, broker,
                                                    position_book(req.account))
  IN /\ orchestrator = "EnhancedSignalProcessor"
     /\ nextUuid <= MaxUuid
     /\ nextUuid' = nextUuid + 1
     /\ op' = "process_signal"
     /\ accountServices' = services.cache
     /\ IF ~has_services
          THEN /\ lastReturn' = SubmitReturn("process_signal", signal_id,
                                             "validation_failed", FALSE, FALSE)
               /\ UNCHANGED signal_queue
        ELSE IF ~accepted(validation_result)
          THEN /\ lastReturn' = SubmitReturn("process_signal", signal_id,
                                             "validation_failed", TRUE,
                                             validation_result.is_valid)
               /\ UNCHANGED signal_queue
        ELSE /\ Len(signal_queue) < MaxQueue
             /\ signal_queue' =
                  Append(signal_queue,
                         [signal_id |-> signal_id, account_name |-> req.account,
                          trade_signal |-> trade_signal,
                          processing_result |-> processing_result,
                          status |-> "queued"])
             /\ lastReturn' = SubmitReturn("process_signal", signal_id, "queued",
                                           TRUE, validation_result.is_valid)
     /\ UNCHANGED <<orchestrator, accountState, broker, queue, status, pc,
                    current, results, processed_count, failed_count,
                    queue_at_call, processed_signals, riskVars, callVars>>

\* one iteration of the loop of EnhancedSignalProcessor.process_queued_signals
enhanced_result(signal) ==
  IF signal.processing_result.success
    THEN [signal_id |-> signal.signal_id, status |-> "processed",
          order_id |-> <<"mock_order", signal.signal_id>>,
          stage |-> signal.processing_result.step]
    ELSE [signal_id |-> signal.signal_id, status |-> "failed",
          order_id |-> NoOrderId, stage |-> signal.processing_result.step]

\* EnhancedSignalProcessor.process_queued_signals: the queue is copied and
\* cleared, then the copy is walked front to back
enhanced_process_queued_signals ==
  LET signals_to_process == signal_queue
      res == [i \in 1..Len(signals_to_process) |->
                enhanced_result(signals_to_process[i])]
      processed == Cardinality({i \in 1..Len(res) : res[i].status = "processed"})
      failed == Cardinality({i \in 1..Len(res) : res[i].status # "processed"})
  IN /\ orchestrator = "EnhancedSignalProcessor"
     /\ signal_queue' = <<>>
     /\ processed_signals' =
          [u \in Uuids |->
             IF \E i \in 1..Len(res) : res[i].signal_id = u
               THEN (CHOOSE r \in {res[i] : i \in 1..Len(res)} : r.signal_id = u).status
               ELSE processed_signals[u]]
     /\ lastReturn' = [op |-> "process_queued_signals",
                       processed_count |-> processed,
                       failed_count |-> failed,
                       total_count |-> Len(signals_to_process),
                       results |-> res,
                       queue_at_call |-> signals_to_process]
     /\ op' = "enhanced_process_queued_signals"
     /\ UNCHANGED <<orchestrator, accountState, broker, basicVars, nextUuid, riskVars, callVars>>

\* ------------------------------------------------------------ specifications
DrainStep == DrainPop \/ DrainExecute \/ DrainReturn

Next ==
  \/ \E req \in Requests : validate_and_process_signal(req)
  \/ DrainBegin
  \/ DrainPop
  \/ DrainExecute
  \/ DrainReturn
  \/ clear_completed_signals
  \/ \E signal_id \in SignalIds : get_signal_status(signal_id)
  \/ get_queue_status
  \/ get_processing_statistics
  \/ \E payload \in Payloads : receive_deribit_style_signal(payload)
  \/ \E request \in SignalRequests : receive_trading_signal(request)
  \/ \E configuration \in Configurations : reload_configuration(configuration)
  \/ \E req \in Requests : process_signal(req)
  \/ enhanced_process_queued_signals

Spec == Init /\ [][Next]_vars

\* process_queued_signals never awaits a pending future: once called, the
\* event loop runs it to its return statement
FairSpec == Spec /\ WF_vars(DrainStep)

\* ----------------------------------------------- check_trade_risk, applied
RiskBooks ==
  { EmptyBook,
    [symbol_qty |-> 8, positions |-> 3, total_value |-> 1000,
     underlying_value |-> 500, unrealized_pnl |-> 0, delta |-> 90,
     vega |-> 0, theta |-> 0],
    [symbol_qty |-> 0, positions |-> 2, total_value |-> 1000,
     underlying_value |-> 100, unrealized_pnl |-> -6000, delta |-> 0,
     vega |-> 0, theta |-> 0],
    [symbol_qty |-> 0, positions |-> 20, total_value |-> 0,
     underlying_value |-> 0, unrealized_pnl |-> 0, delta |-> 0,
     vega |-> 900, theta |-> -400] }

RiskContracts ==
  { parse_contract(MockChain(30)[3]),
    [parse_contract(MockChain(30)[3]) EXCEPT
       !.has_greeks = TRUE, !.delta = 1, !.vega = 10, !.theta = -5],
    [parse_contract(MockChain(2)[8]) EXCEPT
       !.has_greeks = TRUE, !.delta = 30, !.vega = 300, !.theta = -200,
       !.expiry_weekend = TRUE, !.volume = 5, !.bid = 100, !.ask = 200,
       !.open_interest = 10] }

Clocks ==
  { [weekend |-> FALSE, in_hours |-> TRUE],
    [weekend |-> FALSE, in_hours |-> FALSE],
    [weekend |-> TRUE, in_hours |-> FALSE] }

RiskInputs ==
  [book : RiskBooks, account : Accounts, clock : Clocks,
   action : {"buy", "sell"},
   contract : {<<c>> : c \in RiskContracts} \cup {<<>>}, quantity : {1, 5}]

InitRisk ==
  /\ orchestrator = "SignalProcessor"
  /\ InitProcessors
  /\ riskIn \in RiskInputs
  /\ riskOut = NoVerdict
  /\ args = NoCall
  /\ returned = NoCall
  /\ inflight = NoDrains

CheckTradeRisk ==
  /\ riskOut = NoVerdict
  /\ riskOut' = check_trade_risk(riskIn.book, riskIn.account, riskIn.clock,
                                 riskIn.action, riskIn.contract, riskIn.quantity)
  /\ UNCHANGED <<orchestrator, accountState, broker, basicVars, lastReturn, op,
                 enhancedVars, riskIn, callVars>>

NextRisk == CheckTradeRisk

SpecRisk == InitRisk /\ [][NextRisk]_vars

\* ------------------------------------------- stateless services, applied
\* WebhookSignal objects handed to SignalValidator.validate_signal
ValidatorSignals ==
  [symbol : {"AAPL", "", " ", Missing},
   action : {"buy", "sell", "close", "hold", "", Missing},
   quantity : {None, -1, 0, 5, MaxQuantity, MaxQuantity + 1},
   quantity_exponent : {0, -MaxDecimalPlaces, -MaxDecimalPlaces - 1},
   price : {None, 150},
   stop_price : {None, 140, 150, 160},
   order_type : {"market", "stop_limit"}]

\* every Shape-A payload the WebhookSignalPayload model lets through, by
\* side and positions
ShapeAPayloads ==
  [account_name : {"account_1"}, side : {"buy", "sell"},
   market_position : PositionSides, prev_market_position : PositionSides,
   symbol : {"AAPL"}, price : {"150"}, size : {"5", "12"}, well_formed : {TRUE}]

\* option chains handed to the selector (listed strikes are positive): the
\* mock chain inside the expiry window, before it and beyond it, a chain
\* whose strike-150 contracts expire beyond the window, and a chain of puts
ParsedChain(d) == [i \in 1..10 |-> parse_contract(MockChain(d)[i])]
SelectorChains ==
  { ParsedChain(30), ParsedChain(5), ParsedChain(90),
    [i \in 1..10 |-> IF ParsedChain(30)[i].strike = 150
                       THEN ParsedChain(90)[i] ELSE ParsedChain(30)[i]],
    SubSeq(ParsedChain(30), 6, 10) }

UnderlyingPrices == {150, 147, 152, 158, 200}

\* for the OTM strategy: also the calls 145, 150, 155 alone, and a price
\* below every strike
OtmChains == SelectorChains \cup {SubSeq(ParsedChain(30), 2, 4)}
OtmPrices == UnderlyingPrices \cup {135}

\* calls of suggest_position_sizing: the book's market value, the account's
\* two sizes (the default may exceed the maximum, the YAML is not checked)
\* and the requested quantity
SizingCalls ==
  [fn : {"suggest_position_sizing"},
   portfolio_value : {-50, 0, 10, 30, 100, 100000},
   max_position_size : {1, 10, 1000},
   default_position_size : {0, 1, 4, 100, 2000},
   signal_quantity : {1, 2, 5, 9, 5000}]

InitCalls ==
  /\ orchestrator = "SignalProcessor"
  /\ InitProcessors
  /\ accountState = [a \in Accounts |-> "enabled"]
  /\ broker.chain = "empty"
  /\ riskIn = NoRiskInput
  /\ riskOut = NoVerdict
  /\ \/ args \in [fn : {"validate_signal"}, signal : ValidatorSignals,
                   account : Accounts]
     \/ args \in [fn : {"convert_deribit_payload_to_signal"},
                   payload : ShapeAPayloads]
     \/ args \in [fn : {"select_option_contract"}, action : {"buy", "sell"},
                   option_chain : SelectorChains, current_price : UnderlyingPrices]
     \/ args \in [fn : {"select_otm_contract"}, action : {"buy", "sell"},
                   option_chain : OtmChains, current_price : OtmPrices]
     \/ args \in SizingCalls
  /\ returned = NoCall
  /\ inflight = NoDrains

ValidateSignal ==
  /\ args.fn = "validate_signal"
  /\ returned = NoCall
  /\ returned' = [fn |-> args.fn,
                  result |-> validate_signal(args.signal, args.account)]
  /\ UNCHANGED <<orchestrator, accountState, broker, basicVars, lastReturn, op,
                 enhancedVars, riskVars, args, inflight>>

ConvertPayload ==
  /\ args.fn = "convert_deribit_payload_to_signal"
  /\ returned = NoCall
  /\ returned' = [fn |-> args.fn,
                  result |-> convert_deribit_payload_to_signal(args.payload)]
  /\ UNCHANGED <<orchestrator, accountState, broker, basicVars, lastReturn, op,
                 enhancedVars, riskVars, args, inflight>>

SelectContract ==
  /\ args.fn = "select_option_contract"
  /\ returned = NoCall
  /\ returned' = [fn |-> args.fn,
                  result |-> select_option_contract([action |-> args.action],
                                                    args.option_chain,
                                                    args.current_price)]
  /\ UNCHANGED <<orchestrator, accountState, broker, basicVars, lastReturn, op,
                 enhancedVars, riskVars, args, inflight>>

SelectOtmContract ==
  /\ args.fn = "select_otm_contract"
  /\ returned = NoCall
  /\ returned' = [fn |-> args.fn,
                  result |-> select_option_contract_by([action |-> args.action],
                                                       args.option_chain,
                                                       args.current_price, "otm")]
  /\ UNCHANGED <<orchestrator, accountState, broker, basicVars, lastReturn, op,
                 enhancedVars, riskVars, args, inflight>>

SuggestPositionSizing ==
  /\ args.fn = "suggest_position_sizing"
  /\ returned = NoCall
  /\ returned' = [fn |-> args.fn,
                  result |-> position_sizing(args.portfolio_value,
                                             args.max_position_size,
                                             args.default_position_size,
                                             args.signal_quantity)]
  /\ UNCHANGED <<orchestrator, accountState, broker, basicVars, lastReturn, op,
                 enhancedVars, riskVars, args, inflight>>

NextCalls ==
  \/ ValidateSignal
  \/ ConvertPayload
  \/ SelectContract
  \/ SelectOtmContract
  \/ SuggestPositionSizing

SpecCalls == InitCalls /\ [][NextCalls]_vars

\* ------------------------------------------- requests inside the drain
\* Requests are coroutines of one event loop: another request runs only
\* while this one is suspended in an await. The loop of
\* SignalProcessor.process_queued_signals awaits _process_single_signal after
\* each pop(0); the loop of EnhancedSignalProcessor.process_queued_signals
\* awaits nothing between its copy, clear and return. Here every await of the
\* basic loop is a point where the other request, an enqueue or a
\* cancellation may come in

\* a drain that copies the queue and leaves it as it was
drain_take_mut(processor, q) ==
  IF processor = "EnhancedSignalProcessor"
    THEN [batch |-> q, rest |-> q]
    ELSE [batch |-> <<dequeue(q).item>>, rest |-> dequeue(q).rest]

\* what a drain removes from the queue at once: the enhanced processor the
\* whole queue (copy, then clear), the basic one its head
drain_take(processor, q) ==
  IF processor = "EnhancedSignalProcessor"
    THEN [batch |-> q, rest |-> <<>>]
    ELSE [batch |-> <<dequeue(q).item>>, rest |-> dequeue(q).rest]

InitDrains ==
  /\ orchestrator \in {"SignalProcessor", "EnhancedSignalProcessor"}
  /\ InitProcessors
  /\ accountState = [a \in Accounts |-> "enabled"]
  /\ broker.chain = "mock"
  /\ riskIn = NoRiskInput
  /\ riskOut = NoVerdict
  /\ args = NoCall
  /\ returned = NoCall
  /\ inflight = NoDrains

\* _queue_signal_for_processing for a signal that passed validation; every
\* request is sent once, so that queue entries can be told apart
queue_signal_for_processing(req) ==
  LET trade_signal == convert_to_trade_signal(req.signal, req.account, req.request_id)
  IN /\ orchestrator = "SignalProcessor"
     /\ accepted(validate_signal(req.signal, req.account))
     /\ Len(inflight.enqueued) <= MaxQueue
     /\ \A i \in 1..Len(inflight.enqueued) : inflight.enqueued[i] # trade_signal
     /\ queue' = Append(queue, trade_signal)
     /\ status' = [status EXCEPT ![trade_signal.signal_id] = "queued"]
     /\ inflight' = [inflight EXCEPT !.enqueued = Append(@, trade_signal)]
     /\ op' = "queue_signal_for_processing"
     /\ UNCHANGED <<orchestrator, accountState, broker, accountServices, pc,
                    current, results, processed_count, failed_count,
                    queue_at_call, lastReturn, enhancedVars, riskVars, args,
                    returned>>

\* the append at the end of EnhancedSignalProcessor.process_signal
enhanced_queue_signal(req) ==
  LET trade_signal == convert_to_trade_signal(req.signal, req.account, nextUuid)
      entry == [signal_id |-> nextUuid, account_name |-> req.account,
                trade_signal |-> trade_signal,
                processing_result |->
                  process_trading_pipeline(trade_signal, broker,
                                           position_book(req.account)),
                status |-> "queued"]
  IN /\ orchestrator = "EnhancedSignalProcessor"
     /\ accepted(validate_signal(req.signal, req.account))
     /\ nextUuid <= MaxUuid
     /\ nextUuid' = nextUuid + 1
     /\ signal_queue' = Append(signal_queue, entry)
     /\ inflight' = [inflight EXCEPT !.enqueued = Append(@, entry)]
     /\ op' = "process_signal"
     /\ UNCHANGED <<orchestrator, accountState, broker, basicVars, lastReturn,
                    processed_signals, riskVars, args, returned>>

\* request d calls SignalProcessor.process_queued_signals
DrainsCall(d) ==
  /\ orchestrator = "SignalProcessor"
  /\ inflight.drains[d].pc = "idle"
  /\ inflight' = [inflight EXCEPT !.drains[d].pc = "loop",
                                  !.drains[d].began_with = queue]
  /\ op' = "drain_begin"
  /\ UNCHANGED <<orchestrator, accountState, broker, basicVars, lastReturn,
                 enhancedVars, riskVars, args, returned>>

\* loop head of request d: pop(0), and the status is set to processing
DrainsTake(d) ==
  /\ orchestrator = "SignalProcessor"
  /\ inflight.drains[d].pc = "loop"
  /\ inflight.drains[d].batch = <<>>
  /\ loop_condition(queue, inflight.drains[d].results)
  /\ LET take == drain_take(orchestrator, queue)
     IN /\ queue' = take.rest
        /\ inflight' = [inflight EXCEPT !.drains[d].batch = take.batch]
        /\ status' = [status EXCEPT ![take.batch[1].signal_id] = "processing"]
  /\ op' = "drain_pop"
  /\ UNCHANGED <<orchestrator, accountState, broker, accountServices, pc,
                 current, results, processed_count, failed_count,
                 queue_at_call, lastReturn, enhancedVars, riskVars, args,
                 returned>>

\* loop body of request d
DrainsExecute(d) ==
  /\ orchestrator = "SignalProcessor"
  /\ inflight.drains[d].pc = "loop"
  /\ inflight.drains[d].batch # <<>>
  /\ LET trade_signal == inflight.drains[d].batch[1]
         result == process_single_signal(trade_signal, accountState, broker,
                                         position_book(trade_signal.account_name))
     IN /\ status' = [status EXCEPT ![trade_signal.signal_id] = final_status(result)]
        /\ inflight' = [inflight EXCEPT !.drains[d].batch = <<>>,
                                        !.drains[d].results = Append(@, result)]
        /\ accountServices' = get_account_services(accountServices, accountState,
                                                   trade_signal.account_name).cache
  /\ op' = "drain_execute"
  /\ UNCHANGED <<orchestrator, accountState, broker, queue, pc, current,
                 results, processed_count, failed_count, queue_at_call,
                 lastReturn, enhancedVars, riskVars, args, returned>>

\* loop exit of request d
DrainsReturn(d) ==
  /\ orchestrator = "SignalProcessor"
  /\ inflight.drains[d].pc = "loop"
  /\ inflight.drains[d].batch = <<>>
  /\ ~loop_condition(queue, inflight.drains[d].results)
  /\ inflight' = [inflight EXCEPT !.drains[d].pc = "returned"]
  /\ op' = "drain_return"
  /\ UNCHANGED <<orchestrator, accountState, broker, basicVars, lastReturn,
                 enhancedVars, riskVars, args, returned>>

\* request d is cancelled while it awaits _process_single_signal:
\* CancelledError is no Exception, so neither except clause catches it
DrainsAbort(d) ==
  /\ orchestrator = "SignalProcessor"
  /\ inflight.drains[d].pc = "loop"
  /\ inflight.drains[d].batch # <<>>
  /\ inflight' = [inflight EXCEPT !.drains[d].pc = "aborted",
                                  !.drains[d].lost = inflight.drains[d].batch,
                                  !.drains[d].batch = <<>>]
  /\ op' = "drain_abort"
  /\ UNCHANGED <<orchestrator, accountState, broker, basicVars, lastReturn,
                 enhancedVars, riskVars, args, returned>>

\* request d runs EnhancedSignalProcessor.process_queued_signals, which no
\* other request interrupts; it walks the whole copy (k items), or dies with
\* an error that is no Exception after k of them
DrainsEnhanced(d) ==
  /\ orchestrator = "EnhancedSignalProcessor"
  /\ inflight.drains[d].pc = "idle"
  /\ LET take == drain_take(orchestrator, signal_queue)
         signals_to_process == take.batch
     IN \E k \in 0..Len(signals_to_process) :
          /\ signal_queue' = take.rest
          /\ processed_signals' =
               [u \in Uuids |->
                  IF \E i \in 1..k : signals_to_process[i].signal_id = u
                    THEN enhanced_result(
                           signals_to_process[CHOOSE i \in 1..k :
                             signals_to_process[i].signal_id = u]).status
                    ELSE processed_signals[u]]
          /\ inflight' =
               [inflight EXCEPT !.drains[d] =
                  [pc |-> IF k = Len(signals_to_process) THEN "returned" ELSE "aborted",
                   began_with |-> signal_queue,
                   batch |-> <<>>,
                   results |-> [i \in 1..k |-> enhanced_result(signals_to_process[i])],
                   lost |-> SubSeq(signals_to_process, k + 1, Len(signals_to_process))]]
  /\ op' = "enhanced_process_queued_signals"
  /\ UNCHANGED <<orchestrator, accountState, broker, basicVars, lastReturn,
                 nextUuid, riskVars, args, returned>>

NextDrains ==
  \/ \E req \in Requests : queue_signal_for_processing(req)
  \/ \E req \in Requests : enhanced_queue_signal(req)
  \/ \E d \in Drains : DrainsCall(d)
  \/ \E d \in Drains : DrainsTake(d)
  \/ \E d \in Drains : DrainsExecute(d)
  \/ \E d \in Drains : DrainsReturn(d)
  \/ \E d \in Drains : DrainsAbort(d)
  \/ \E d \in Drains : DrainsEnhanced(d)

SpecDrains == InitDrains /\ [][NextDrains]_vars

\* -------------------------------------------------------------- properties
SubmitOps == {"validate_and_process_signal", "process_signal"}
RouteOps == {"receive_deribit_style_signal", "receive_trading_signal"}
Terminal == {"completed", "failed"}

\* C1: a submission whose validation fails returns validation_failed, and
\* the queue and the status map (of either processor) are exactly as they
\* were before the call
C1_ValidationFailureNotEnqueued ==
  [][ (op' \in SubmitOps /\ lastReturn'.validated /\ ~lastReturn'.is_valid)
      => /\ lastReturn'.status = "validation_failed"
         /\ UNCHANGED <<queue, status, signal_queue, processed_signals>> ]_vars

\* an invalid signal was turned away while another one was waiting
C1_Witness ==
  /\ op \in SubmitOps
  /\ lastReturn.validated /\ ~lastReturn.is_valid
  /\ lastReturn.status = "validation_failed"
  /\ queue # <<>>

LifecycleEdges ==
  { <<"none", "queued">>, <<"queued", "processing">>,
    <<"processing", "completed">>, <<"processing", "failed">> }

\* what one request to a webhook route does to a status: the route enqueues
\* and drains before it answers, so an id goes through the whole lifecycle
\* within the request
LifecycleRuns ==
  { <<"none", "completed">>, <<"none", "failed">>,
    <<"queued", "completed">>, <<"queued", "failed">> }

\* C2 as stated: the status of an id only moves along queued -> processing ->
\* completed | failed, and a completed or failed id never changes again
\* (clear_completed_signals, which is neither an enqueue nor a drain, may
\* forget it)
C2_AsStated ==
  [][ \A id \in SignalIds :
        status'[id] # status[id] =>
          \/ <<status[id], status'[id]>> \in LifecycleEdges
          \/ op' \in RouteOps /\ <<status[id], status'[id]>> \in LifecycleRuns
          \/ status[id] \in Terminal /\ status'[id] = "none"
                /\ op' = "clear_completed_signals" ]_vars

\* C2, amended: the status of an id only moves along queued -> processing ->
\* completed | failed; a completed or failed id changes again only when a
\* caller submits another signal under the same id (back to queued, or to
\* processing when that signal was already waiting in the queue) or when
\* clear_completed_signals forgets it; the queue grows only by a submission,
\* so nothing is re-queued by the processor itself
C2_StatusLifecycle ==
  [][ /\ \A id \in SignalIds :
           status'[id] # status[id] =>
             \/ <<status[id], status'[id]>> \in LifecycleEdges
             \/ op' \in RouteOps /\ <<status[id], status'[id]>> \in LifecycleRuns
             \/ /\ status[id] \in Terminal /\ status'[id] = "none"
                /\ op' = "clear_completed_signals"
             \/ /\ status[id] \in Terminal /\ status'[id] = "queued"
                /\ op' = "validate_and_process_signal"
                /\ lastReturn'.signal_id = id /\ lastReturn'.status = "queued"
             \/ /\ status[id] \in Terminal /\ status'[id] = "processing"
                /\ op' = "drain_pop"
                /\ queue # <<>> /\ Head(queue).signal_id = id
      /\ Len(queue') > Len(queue) =>
           /\ op' = "validate_and_process_signal"
           /\ queue' = Append(queue, queue'[Len(queue')]) ]_vars

\* one id ended failed and another completed
C2_Witness ==
  /\ pc = "idle"
  /\ status["req-1"] = "failed"
  /\ status["req-2"] = "completed"

\* the signal the loop body has just executed, and its result
last_executed == queue_at_call[Len(results)]
last_result == results[Len(results)]

\* C3: a failure while executing one signal is recorded as that signal's
\* failure (status failed, one failed result) and the drain goes on with
\* every remaining queued signal: one result per signal when it returns
C3_FailureIsolated ==
  /\ (op = "drain_execute" /\ last_result.status # "processed") =>
       /\ last_result.status = "failed"
       /\ last_result.signal_id = last_executed.signal_id
       /\ status[last_executed.signal_id] = "failed"
       /\ pc = "draining"
       /\ Len(results) + Len(queue) = Len(queue_at_call)
       /\ (queue # <<>> => ENABLED DrainPop)
  /\ op = "drain_return" =>
       /\ Len(lastReturn.results) = Len(lastReturn.queue_at_call)
       /\ queue = <<>>

\* a drain returned two results although the first signal had failed
C3_Witness ==
  /\ op = "drain_return"
  /\ Len(lastReturn.results) = 2
  /\ lastReturn.results[1].status = "failed"

ids_of(seq) == [i \in 1..Len(seq) |-> seq[i].signal_id]

\* C4: signals are executed and reported in the order they were enqueued:
\* while a drain runs, the signals executed so far, the one in hand and the
\* ones still queued are the queue the drain found, in that order, and the
\* returned results follow the same order
C4_FifoOrder ==
  /\ pc = "draining" =>
       ids_of(results) \o ids_of(current) \o ids_of(queue) = ids_of(queue_at_call)
  /\ (op \in {"drain_return", "enhanced_process_queued_signals"}) =>
       ids_of(lastReturn.results) = ids_of(lastReturn.queue_at_call)

\* a drain returned the results of two signals with different ids
C4_Witness ==
  /\ op = "drain_return"
  /\ Len(lastReturn.results) = 2
  /\ lastReturn.results[1].signal_id # lastReturn.results[2].signal_id

\* one of the four stages before place_order gives nothing for this signal
plan_blocked(trade_signal) ==
  LET book == position_book(trade_signal.account_name)
      option_chain == get_option_chain(client_get_option_chain(broker))
      selected == select_option_contract(trade_signal, option_chain,
                                         current_market_price(trade_signal))
      quantity == suggest_position_sizing(book, trade_signal.account_name,
                                          trade_signal.quantity)
  IN \/ option_chain = <<>>
     \/ selected = <<>>
     \/ check_trade_risk(book, trade_signal.account_name, broker.clock,
                         trade_signal.action, selected, quantity).result = "rejected"
     \/ create_order(trade_signal, selected[1], quantity) = <<>>

\* C5: for a buy/sell signal whose option chain is empty, whose selection
\* returned none, whose risk verdict is rejected or whose order construction
\* returned none, place_order is not called and the signal ends failed
C5_NoOrderWithoutPlan ==
  (/\ op = "drain_execute"
   /\ last_executed.action \in {"buy", "sell"}
   /\ plan_blocked(last_executed)) =>
     /\ last_result.placed = <<>>
     /\ last_result.status = "failed"
     /\ status[last_executed.signal_id] = "failed"

\* a buy signal of an enabled account was executed against an empty chain
C5_Witness ==
  /\ op = "drain_execute"
  /\ last_executed.action = "buy"
  /\ accountState[last_executed.account_name] = "enabled"
  /\ get_option_chain(client_get_option_chain(broker)) = <<>>
  /\ last_result.status = "failed"

DrainReturned == op \in {"drain_return", "enhanced_process_queued_signals"}

\* C6: a drain that was started returns, and when it returns the queue is
\* empty, every signal it found queued is completed or failed (processed or
\* failed in the enhanced processor), and total_count = processed_count +
\* failed_count = number of results = number of signals dequeued
C6_DrainTerminates ==
  /\ (pc = "draining") ~> (pc = "idle" /\ op = "drain_return")
  /\ [](DrainReturned =>
          /\ lastReturn.total_count = lastReturn.processed_count + lastReturn.failed_count
          /\ lastReturn.total_count = Len(lastReturn.results)
          /\ lastReturn.total_count = Len(lastReturn.queue_at_call))
  /\ [](op = "drain_return" =>
          /\ queue = <<>>
          /\ \A i \in 1..Len(lastReturn.queue_at_call) :
               status[lastReturn.queue_at_call[i].signal_id] \in Terminal)
  /\ [](op = "enhanced_process_queued_signals" =>
          /\ signal_queue = <<>>
          /\ \A i \in 1..Len(lastReturn.queue_at_call) :
               processed_signals[lastReturn.queue_at_call[i].signal_id]
                 \in {"processed", "failed"})

\* a drain over two queued signals has returned
C6_Witness ==
  /\ op = "drain_return"
  /\ pc = "idle"
  /\ Len(lastReturn.queue_at_call) = 2
  /\ lastReturn.total_count = 2

\* C7: draining a queue that holds one accepted buy signal yields exactly one
\* result, for that signal id, with status processed or failed, and a
\* processed result carries an order id
C7_OneBuyOneResult ==
  (/\ op = "drain_return"
   /\ Len(lastReturn.queue_at_call) = 1
   /\ lastReturn.queue_at_call[1].action = "buy") =>
     /\ Len(lastReturn.results) = 1
     /\ lastReturn.results[1].signal_id = lastReturn.queue_at_call[1].signal_id
     /\ lastReturn.results[1].status \in {"processed", "failed"}
     /\ (lastReturn.results[1].status = "processed"
           => lastReturn.results[1].order_id # NoOrderId)

\* a drain over exactly one buy signal has returned
C7_Witness ==
  /\ op = "drain_return"
  /\ Len(lastReturn.queue_at_call) = 1
  /\ lastReturn.queue_at_call[1].action = "buy"
  /\ Len(lastReturn.results) = 1

\* the broker supplies what the four stages need for this signal: a chain
\* with a contract of the signal's type inside the expiry window, quoted on
\* both sides, a risk verdict other than rejected, and it accepts the order
stages_can_succeed(trade_signal) ==
  LET book == position_book(trade_signal.account_name)
      data == client_get_option_chain(broker).data
      option_chain == [i \in 1..Len(data) |-> parse_contract(data[i])]
      selected == select_option_contract(trade_signal, option_chain,
                                         current_market_price(trade_signal))
      quantity == suggest_position_sizing(book, trade_signal.account_name,
                                          trade_signal.quantity)
  IN /\ accountState[trade_signal.account_name] = "enabled"
     /\ ~client_get_option_chain(broker).raises
     /\ option_chain # <<>>
     /\ selected # <<>>
     /\ selected[1].bid > 0 /\ selected[1].ask > 0
     /\ quantity > 0
     /\ check_trade_risk(book, trade_signal.account_name, broker.clock,
                         trade_signal.action, selected, quantity).result # "rejected"
     /\ broker.accepts

\* C8: a buy or sell signal for which chain retrieval, contract selection,
\* the risk check and order construction can succeed and whose order the
\* broker accepts updates the position book and ends completed, with a
\* processed result carrying the order id
C8_SuccessfulTradeCompletes ==
  (/\ op = "drain_execute"
   /\ last_executed.action \in {"buy", "sell"}
   /\ stages_can_succeed(last_executed)) =>
     /\ last_result.status = "processed"
     /\ last_result.order_id # NoOrderId
     /\ last_result.book_updated
     /\ status[last_executed.signal_id] = "completed"

\* the orders a close of this symbol is to issue: one market order per
\* position matching the symbol with non-zero quantity, for the absolute
\* quantity, selling a long position and buying back a short one
expected_close_orders(symbol) ==
  LET matching == SelectSeq(broker.positions,
                            LAMBDA p : symbol_in(symbol, p.symbol) /\ p.quantity # 0)
  IN [i \in 1..Len(matching) |->
        [symbol |-> matching[i].symbol, order_type |-> "market",
         side |-> IF matching[i].quantity > 0 THEN "sell" ELSE "buy",
         quantity |-> Abs(matching[i].quantity)]]

\* C9: executing a close signal for symbol S issues exactly one opposite-side
\* market order per open position matching S, for the absolute quantity, and
\* none for other symbols (one long position of 10 gives one sell order of 10)
C9_CloseIssuesOneOrderPerPosition ==
  (/\ op = "drain_execute"
   /\ last_executed.action = "close"
   /\ accountState[last_executed.account_name] = "enabled") =>
     [i \in 1..Len(last_result.placed) |-> last_result.placed[i].order]
       = expected_close_orders(last_executed.symbol)

\* C10: check_trade_risk (called with a contract, so that its sub-checks
\* run) gives rejected when a sub-check produced an error, otherwise
\* requires_review with more than 3 warnings, otherwise warning with 1 to 3
\* warnings, otherwise approved
C10_RiskVerdict ==
  (riskOut # NoVerdict /\ riskIn.contract # <<>>) =>
    LET e == Len(riskOut.errors)
        w == Len(riskOut.warnings)
    IN /\ (e > 0 => riskOut.result = "rejected")
       /\ (e = 0 /\ w > 3 => riskOut.result = "requires_review")
       /\ (e = 0 /\ w >= 1 /\ w <= 3 => riskOut.result = "warning")
       /\ (e = 0 /\ w = 0 => riskOut.result = "approved")
       /\ riskOut.messages = riskOut.errors \o riskOut.warnings

\* a call without errors and with exactly three warnings gave "warning"
C10_Witness ==
  /\ riskOut.result = "warning"
  /\ Len(riskOut.errors) = 0
  /\ Len(riskOut.warnings) = 3

Verdicts == {"approved", "rejected", "warning", "requires_review"}

\* C11: check_trade_risk never raises and always returns a verdict; when the
\* Greeks sub-check raises (a contract without Greeks) its one message
\* "Greeks check error" takes the place of its warnings and every other
\* sub-check contributes exactly what it reports on its own; when the error
\* is outside the sub-checks (no contract) the verdict is rejected with one
\* error message and empty metrics
C11_RiskNeverRaises ==
  riskOut # NoVerdict =>
    /\ ~riskOut.raised
    /\ riskOut.result \in Verdicts
    /\ riskIn.contract = <<>> =>
         /\ riskOut.result = "rejected"
         /\ riskOut.messages = <<"Risk check error">>
         /\ riskOut.metrics = {}
    /\ (riskIn.contract # <<>> /\ ~riskIn.contract[1].has_greeks) =>
         /\ riskOut.errors =
              check_position_size_limits(riskIn.book, riskIn.account, riskIn.quantity)
              \o check_daily_loss_limits(riskIn.book)
         /\ riskOut.warnings =
              check_concentration_limits(riskIn.book)
              \o <<"Greeks check error">>
              \o check_expiration_risk(riskIn.contract[1])
              \o check_liquidity_risk(riskIn.contract[1])
              \o check_market_conditions(riskIn.clock)
         /\ riskOut.messages = riskOut.errors \o riskOut.warnings

\* the Greeks sub-check raised, and the concentration and market-hours
\* sub-checks still reported their warnings around its message
C11_Witness ==
  /\ riskOut # NoVerdict
  /\ riskIn.contract # <<>>
  /\ ~riskIn.contract[1].has_greeks
  /\ Len(riskOut.warnings) = 4
  /\ riskOut.warnings[1] = "High concentration"
  /\ riskOut.warnings[2] = "Greeks check error"
  /\ riskOut.warnings[4] = "Trading outside regular market hours"

Contains(seq, x) == \E i \in 1..Len(seq) : seq[i] = x

\* the portfolio delta after the trade: the book's delta plus the contract's
\* delta times the signed quantity
resulting_delta(in) ==
  in.book.delta
  + in.contract[1].delta * (IF in.action = "buy" THEN in.quantity ELSE -in.quantity)

\* C12: when the portfolio delta after the trade exceeds 100 in absolute
\* value, check_trade_risk puts "Portfolio delta limit exceeded" among its
\* warnings and not among its errors, and the verdict is rejected exactly
\* when the position-size or the daily-loss sub-check reports an error
C12_DeltaBreachWarns ==
  (/\ riskOut # NoVerdict
   /\ riskIn.contract # <<>>
   /\ riskIn.contract[1].has_greeks
   /\ Abs(resulting_delta(riskIn)) > max_portfolio_delta) =>
     /\ Contains(riskOut.warnings, "Portfolio delta limit exceeded")
     /\ ~Contains(riskOut.errors, "Portfolio delta limit exceeded")
     /\ riskOut.result = "rejected" <=>
          \/ check_position_size_limits(riskIn.book, riskIn.account,
                                        riskIn.quantity) # <<>>
          \/ check_daily_loss_limits(riskIn.book) # <<>>

\* a sale took the portfolio delta below -100 and the verdict was not
\* rejected
C12_Witness ==
  /\ riskOut # NoVerdict
  /\ riskIn.contract # <<>>
  /\ riskIn.contract[1].has_greeks
  /\ resulting_delta(riskIn) < -max_portfolio_delta
  /\ Contains(riskOut.warnings, "Portfolio delta limit exceeded")
  /\ riskOut.result \in {"warning", "requires_review"}

GetterOps == {"get_signal_status", "get_queue_status", "get_processing_statistics"}

\* C13: a call of get_signal_status, get_queue_status or
\* get_processing_statistics leaves the queue and the status map (and every
\* other field of the processor) as they were and reports them as they are,
\* and a get_queue_status call that directly follows another one returns the
\* same queue_length, total_signals and status_counts
C13_GettersReadOnly ==
  [][ op' \in GetterOps =>
        /\ UNCHANGED <<queue, status, basicVars, enhancedVars, accountState>>
        /\ op' = "get_signal_status" =>
             lastReturn'.status = status[lastReturn'.signal_id]
        /\ op' = "get_queue_status" =>
             /\ lastReturn'.queue_length = Len(queue)
             /\ lastReturn'.total_signals = Cardinality(tracked(status))
             /\ \A s \in DOMAIN lastReturn'.status_counts :
                  lastReturn'.status_counts[s]
                    = Cardinality({id \in SignalIds : status[id] = s})
        /\ op' = "get_processing_statistics" =>
             /\ lastReturn'.queue_length = Len(queue)
             /\ lastReturn'.total_signals = Cardinality(tracked(status))
        /\ (op = "get_queue_status" /\ op' = "get_queue_status") =>
             /\ lastReturn'.queue_length = lastReturn.queue_length
             /\ lastReturn'.total_signals = lastReturn.total_signals
             /\ lastReturn'.status_counts = lastReturn.status_counts ]_vars

\* get_queue_status reported one queued signal next to a finished one
C13_Witness ==
  /\ op = "get_queue_status"
  /\ lastReturn.queue_length = 1
  /\ lastReturn.total_signals = 2
  /\ DOMAIN lastReturn.status_counts = {"queued", "failed"}
  /\ Len(queue) = 1

\* C14: every request posted to one of the two webhook signal routes,
\* whatever its outcome, is answered with the envelope (success flag and
\* message) and not with a bare HTTP error status
C14_AlwaysEnvelope ==
  op \in RouteOps => (lastReturn.envelope /\ lastReturn.http_status = 200)

\* C15: a well-formed Shape-A payload for an enabled account whose signal was
\* queued and whose execution in the immediate drain succeeded (result
\* processed, status completed) is answered with success = true
C15_ShapeASuccess ==
  (/\ op = "receive_deribit_style_signal"
   /\ lastReturn.outcome = "queued"
   /\ lastReturn.execution = "processed"
   /\ status[lastReturn.signal_id] = "completed") => lastReturn.success

\* the errors each check of the validator reports on its own, in call order
check_errors(signal, account) ==
  << validate_required_fields(signal), validate_symbol_format(signal.symbol),
     validate_action(signal.action), validate_quantities(signal),
     validate_prices(signal), validate_order_parameters(signal),
     validate_against_account_config(signal, account) >>

blank(text) == falsy(text) \/ strip(text) = ""

\* C16: validate_signal reports the errors of every one of its checks, in
\* order, whatever the earlier checks found; is_valid holds exactly when no
\* error was reported; a signal whose symbol (action) is missing or blank is
\* invalid and carries the error naming the symbol (action)
C16_ValidatorAccumulates ==
  returned.fn = "validate_signal" =>
    LET signal == args.signal
        result == returned.result
        each == check_errors(signal, args.account)
    IN /\ result.errors
            = each[1] \o each[2] \o each[3] \o each[4] \o each[5] \o each[6] \o each[7]
       /\ \A i \in 1..7 : \A k \in 1..Len(each[i]) :
            Contains(result.errors, each[i][k])
       /\ result.is_valid <=> (result.errors = <<>>)
       /\ blank(signal.symbol) =>
            /\ ~result.is_valid
            /\ Contains(result.errors, "Symbol is required and cannot be empty")
       /\ blank(signal.action) =>
            /\ ~result.is_valid
            /\ Contains(result.errors, "Action is required and cannot be empty")

\* a signal without symbol, with quantity 0 and a misordered stop-limit pair
\* got the errors of all three checks
C16_Witness ==
  /\ returned.fn = "validate_signal"
  /\ args.signal.symbol = Missing
  /\ Contains(returned.result.errors, "Symbol is required and cannot be empty")
  /\ Contains(returned.result.errors, "Quantity must be positive")
  /\ Contains(returned.result.errors,
              "For buy stop-limit orders, stop price should be above limit price")

QuantityErrors ==
  {"Quantity must be positive", "Quantity is too large (max 1,000,000)",
   "Quantity has too many decimal places (max 8)"}

\* C17: for a signal carrying a quantity q, q <= 0 or q > 1,000,000 makes
\* the signal invalid with an error of the quantity check, and
\* 0 < q <= 1,000,000 with at most 8 fractional digits gives no error of the
\* quantity check
C17_QuantityBounds ==
  (returned.fn = "validate_signal" /\ args.signal.quantity # None) =>
    LET q == args.signal.quantity
        errors == returned.result.errors
    IN /\ (q <= 0 \/ q > 1000000) =>
            /\ ~returned.result.is_valid
            /\ \E e \in QuantityErrors : Contains(errors, e)
       /\ q <= 0 => Contains(errors, "Quantity must be positive")
       /\ q > 1000000 => Contains(errors, "Quantity is too large (max 1,000,000)")
       /\ (0 < q /\ q <= 1000000 /\ quantity_exponent(args.signal) >= -8) =>
            \A e \in QuantityErrors : ~Contains(errors, e)

\* the quantity 1,000,000.00000000 passed the quantity check
C17_Witness ==
  /\ returned.fn = "validate_signal"
  /\ args.signal.quantity = 1000000
  /\ quantity_exponent(args.signal) = -8
  /\ \A e \in QuantityErrors : ~Contains(returned.result.errors, e)
  /\ ~returned.result.is_valid

BuyStopLimitError ==
  "For buy stop-limit orders, stop price should be above limit price"
SellStopLimitError ==
  "For sell stop-limit orders, stop price should be below limit price"

\* C18: for a stop-limit signal carrying price and stop price, a buy whose
\* stop price is not above the price and a sell whose stop price is not
\* below the price are invalid with the error of their direction, and a
\* pair in the right order gets no such error (buy, price 150, stop 140 is
\* invalid)
C18_StopLimitOrdering ==
  (/\ returned.fn = "validate_signal"
   /\ args.signal.order_type = "stop_limit"
   /\ args.signal.price # None
   /\ args.signal.stop_price # None) =>
    LET signal == args.signal
        errors == returned.result.errors
    IN /\ (signal.action = "buy" /\ signal.stop_price <= signal.price) =>
            (~returned.result.is_valid /\ Contains(errors, BuyStopLimitError))
       /\ (signal.action = "sell" /\ signal.stop_price >= signal.price) =>
            (~returned.result.is_valid /\ Contains(errors, SellStopLimitError))
       /\ (signal.action = "buy" /\ signal.stop_price > signal.price) =>
            ~Contains(errors, BuyStopLimitError)
       /\ (signal.action = "sell" /\ signal.stop_price < signal.price) =>
            ~Contains(errors, SellStopLimitError)

\* buy AAPL 5 as stop-limit with price 150 and stop 140 was turned down for
\* the order of its prices alone
C18_Witness ==
  /\ returned.fn = "validate_signal"
  /\ args.signal.symbol = "AAPL" /\ args.signal.action = "buy"
  /\ args.signal.quantity = 5 /\ args.signal.quantity_exponent = 0
  /\ args.signal.order_type = "stop_limit"
  /\ args.signal.price = 150 /\ args.signal.stop_price = 140
  /\ returned.result.errors = <<BuyStopLimitError>>

\* C19: the signal converted from a Shape-A payload has the action close
\* when the payload leaves a position for flat, the side of the new position
\* (long: buy, short: sell) when it reverses one, and the payload's side
\* otherwise; its order type is market and its time in force day, always
C19_ShapeAConversion ==
  returned.fn = "convert_deribit_payload_to_signal" =>
    LET payload == args.payload
        signal == returned.result
        prev == payload.prev_market_position
        new == payload.market_position
    IN /\ signal.action =
            IF prev # "flat" /\ new = "flat" THEN "close"
            ELSE IF prev # "flat" /\ new # "flat" /\ prev # new
              THEN (IF new = "long" THEN "buy" ELSE "sell")
            ELSE payload.side
       /\ signal.order_type = "market"
       /\ time_in_force(signal) = "day"
       /\ signal.symbol = payload.symbol

\* a payload with side buy that turns a long position short became a sell
C19_Witness ==
  /\ returned.fn = "convert_deribit_payload_to_signal"
  /\ args.payload.side = "buy"
  /\ args.payload.prev_market_position = "long"
  /\ args.payload.market_position = "short"
  /\ returned.result.action = "sell"
  /\ returned.result.order_type = "market"

\* the contracts of the chain of the signal's type inside the expiry window
atm_candidates(action, option_chain) ==
  {i \in 1..Len(option_chain) :
     /\ option_chain[i].option_type = (IF action = "buy" THEN "call" ELSE "put")
     /\ option_chain[i].expiry_days >= 7 /\ option_chain[i].expiry_days <= 60}

\* C20: with the ATM strategy the selector returns, when the chain has
\* contracts of the signal's type (buy: call, sell: put) inside the expiry
\* window, one of them whose distance |strike - price| is minimal among them,
\* and none otherwise; strikes 140..160 at price 150 give the strike 150
C20_AtmSelection ==
  returned.fn = "select_option_contract" =>
    LET chain == args.option_chain
        candidates == atm_candidates(args.action, chain)
        selected == returned.result
    IN /\ candidates = {} <=> selected = <<>>
       /\ selected # <<>> =>
            /\ \E i \in candidates : chain[i] = selected[1]
            /\ \A j \in candidates :
                 Abs(selected[1].strike - args.current_price)
                   <= Abs(chain[j].strike - args.current_price)
       /\ (chain = ParsedChain(30) /\ args.current_price = 150) =>
            (selected # <<>> /\ selected[1].strike = 150)

\* from the mock chain at price 150 a sell signal got the strike-150 put
C20_Witness ==
  /\ returned.fn = "select_option_contract"
  /\ args.option_chain = ParsedChain(30)
  /\ args.current_price = 150
  /\ args.action = "sell"
  /\ returned.result # <<>>
  /\ returned.result[1].strike = 150
  /\ returned.result[1].option_type = "put"

\* C21: with the OTM strategy a call signal (buy) gets a contract whose
\* strike is the smallest one strictly above the underlying price among the
\* calls inside the expiry window, a put signal (sell) one whose strike is the
\* largest one strictly below it among the puts, and none is returned when
\* there is no such strike; calls 145, 150, 155 at price 150 give strike 155
C21_OtmSelection ==
  returned.fn = "select_otm_contract" =>
    LET chain == args.option_chain
        price == args.current_price
        strikes == {chain[i].strike : i \in atm_candidates(args.action, chain)}
        beyond == IF args.action = "buy" THEN {k \in strikes : k > price}
                  ELSE {k \in strikes : k < price}
        selected == returned.result
    IN /\ beyond = {} <=> selected = <<>>
       /\ selected # <<>> =>
            /\ selected[1].option_type = (IF args.action = "buy" THEN "call" ELSE "put")
            /\ selected[1].strike \in beyond
            /\ \A k \in beyond : IF args.action = "buy" THEN selected[1].strike <= k
                                  ELSE selected[1].strike >= k
       /\ (chain = SubSeq(ParsedChain(30), 2, 4) /\ price = 150 /\ args.action = "buy")
            => (selected # <<>> /\ selected[1].strike = 155)

\* the calls 145, 150, 155 at price 150 gave a buy signal the strike 155
C21_Witness ==
  /\ returned.fn = "select_otm_contract"
  /\ args.option_chain = SubSeq(ParsedChain(30), 2, 4)
  /\ args.current_price = 150
  /\ args.action = "buy"
  /\ returned.result # <<>>
  /\ returned.result[1].strike = 155

\* C22: for a requested quantity of at least 1, any market value of the
\* position book and an account whose max_position_size is at least 1,
\* suggest_position_sizing returns a quantity q with 1 <= q <=
\* max_position_size (requested 5000 with maximum 1000 gives at most 1000)
C22_SizingBounds ==
  (/\ returned.fn = "suggest_position_sizing"
   /\ args.signal_quantity >= 1
   /\ args.max_position_size >= 1) =>
    /\ 1 <= returned.result
    /\ returned.result <= args.max_position_size

\* 5000 contracts asked of an account with maximum 1000 and a book worth 10
\* dollars: the risk sizing allows no contract and the floor returns one
C22_Witness ==
  /\ returned.fn = "suggest_position_sizing"
  /\ args.signal_quantity = 5000
  /\ args.max_position_size = 1000
  /\ args.default_position_size = 2000
  /\ args.portfolio_value = 10
  /\ returned.result = 1

entry_key(x) ==
  IF "action" \in DOMAIN x THEN <<x.signal_id, x.action>> ELSE <<x.signal_id>>
occurrences(key, seq) ==
  Cardinality({i \in 1..Len(seq) : entry_key(seq[i]) = key})
in_drains(key, field) ==
  occurrences(key, inflight.drains[1][field])
    + occurrences(key, inflight.drains[2][field])

\* C24: with two requests inside process_queued_signals at once, interleaved
\* at the awaits, every signal that was enqueued is at any time in exactly one
\* place: waiting in the queue, taken by one request and not yet executed,
\* executed by one request (and then in the results of that request only), or
\* dropped with the request that was cancelled while executing it; so no
\* signal is executed twice, and none disappears while the requests run on
C24_ExactlyOneDrain ==
  \A i \in 1..Len(inflight.enqueued) :
    LET key == entry_key(inflight.enqueued[i])
        waiting == occurrences(key, IF orchestrator = "SignalProcessor"
                                      THEN queue ELSE signal_queue)
    IN /\ in_drains(key, "results") <= 1
       /\ waiting + in_drains(key, "batch") + in_drains(key, "results")
            + in_drains(key, "lost") = 1
       /\ (\A d \in Drains : inflight.drains[d].pc # "aborted")
            => in_drains(key, "lost") = 0

\* two requests of the basic processor drained three signals between them,
\* each executed at least one, and both have returned
C24_Witness ==
  /\ orchestrator = "SignalProcessor"
  /\ Len(inflight.enqueued) = 3
  /\ queue = <<>>
  /\ \A d \in Drains : /\ inflight.drains[d].pc = "returned"
                        /\ inflight.drains[d].results # <<>>
  /\ Len(inflight.drains[1].results) + Len(inflight.drains[2].results) = 3

\* the entries of seq, as keys
keys(seq) == {entry_key(seq[i]) : i \in 1..Len(seq)}
the_queue == IF orchestrator = "SignalProcessor" THEN queue ELSE signal_queue

\* C25 as stated: a drain has emptied the queue before it processes its
\* first item: once it has taken an item, nothing that was queued when it
\* began is in the queue, it processes nothing that was enqueued after it
\* began, and when it aborts the items it had not processed are in the queue
\* no longer
C25_AsStated ==
  \A d \in Drains :
    LET drain == inflight.drains[d]
        started == drain.batch # <<>> \/ drain.results # <<>> \/ drain.lost # <<>>
    IN /\ started => keys(drain.began_with) \cap keys(the_queue) = {}
       /\ keys(drain.results) \subseteq keys(drain.began_with)
       /\ drain.pc = "aborted" =>
            keys(drain.began_with) \cap keys(the_queue) = {}

\* C25, amended: the drain of EnhancedSignalProcessor empties the queue before
\* it processes its first item: it processes what was queued when it began
\* and nothing else, and when it aborts the items it had not processed are
\* neither in the queue nor in its results. The drain of SignalProcessor
\* removes one signal at a time: what it has not reached stays in the queue,
\* where a signal enqueued meanwhile joins it, and an abort drops only the
\* one signal that was being executed
C25_DrainTakes ==
  \A d \in Drains :
    LET drain == inflight.drains[d]
    IN IF orchestrator = "EnhancedSignalProcessor"
         THEN /\ drain.pc # "idle" =>
                   /\ keys(drain.began_with) \cap keys(signal_queue) = {}
                   /\ keys(drain.results) \cup keys(drain.lost) = keys(drain.began_with)
                   /\ keys(drain.results) \cap keys(drain.lost) = {}
              /\ drain.pc = "returned" => drain.lost = <<>>
         ELSE /\ Len(drain.batch) <= 1
              /\ Len(drain.lost) <= 1
              /\ drain.pc = "aborted" <=> drain.lost # <<>>
              /\ \A key \in keys(drain.began_with) :
                   \/ key \in keys(queue)
                   \/ \E e \in Drains :
                        key \in keys(inflight.drains[e].batch)
                                  \cup keys(inflight.drains[e].results)
                                  \cup keys(inflight.drains[e].lost)

\* a drain of the basic processor that began with one signal queued has
\* returned with two results, the second for a signal enqueued while it ran
C25_Witness ==
  /\ orchestrator = "SignalProcessor"
  /\ inflight.drains[1].pc = "returned"
  /\ Len(inflight.drains[1].began_with) = 1
  /\ Len(inflight.drains[1].results) = 2
  /\ inflight.drains[2].pc = "idle"

\* C26: a call of process_webhook_signal (through
\* validate_and_process_signal) or of process_signal whose signal passes
\* validation returns the status queued and appends exactly one entry, for
\* the returned signal id, at the tail of the processor's queue; the basic
\* processor records the status queued for the id, the enhanced processor
\* stores the status queued in the entry together with the plan the pipeline
\* computed for it, successful or not
C26_EnqueueOne ==
  [][ (op' \in SubmitOps /\ lastReturn'.validated /\ lastReturn'.is_valid) =>
        /\ lastReturn'.status = "queued"
        /\ IF orchestrator = "SignalProcessor"
             THEN /\ Len(queue') = Len(queue) + 1
                  /\ SubSeq(queue', 1, Len(queue)) = queue
                  /\ queue'[Len(queue')].signal_id = lastReturn'.signal_id
                  /\ status'[lastReturn'.signal_id] = "queued"
                  /\ UNCHANGED signal_queue
             ELSE LET entry == signal_queue'[Len(signal_queue')]
                  IN /\ Len(signal_queue') = Len(signal_queue) + 1
                     /\ SubSeq(signal_queue', 1, Len(signal_queue)) = signal_queue
                     /\ entry.signal_id = lastReturn'.signal_id
                     /\ entry.status = "queued"
                     /\ entry.trade_signal.signal_id = entry.signal_id
                     /\ entry.processing_result =
                          process_trading_pipeline(entry.trade_signal, broker,
                                                   position_book(entry.account_name))
                     /\ UNCHANGED queue ]_vars

\* the enhanced processor queued a second signal behind the first, with a
\* plan that had failed
C26_Witness ==
  /\ op = "process_signal"
  /\ lastReturn.status = "queued"
  /\ Len(signal_queue) = 2
  /\ signal_queue[2].signal_id = lastReturn.signal_id
  /\ ~signal_queue[2].processing_result.success

\* whether a stage of the pipeline fails for a signal, from what the services
\* answer: an empty chain, no contract selected, a rejected trade, no order
\* built, an order with validation errors
stage_fails(n, trade_signal, b, book) ==
  LET account == trade_signal.account_name
      option_chain == enhanced_get_option_chain(b)
      selected == select_option_contract(trade_signal, option_chain,
                                         current_market_price(trade_signal))
      quantity == suggest_position_sizing(book, account, trade_signal.quantity)
      order_params == create_order(trade_signal, selected[1], quantity)
  IN CASE n = 1 -> option_chain = <<>>
       [] n = 2 -> selected = <<>>
       [] n = 3 -> FALSE
       [] n = 4 -> check_trade_risk(book, account, b.clock, trade_signal.action,
                                    selected, quantity).result = "rejected"
       [] n = 5 -> order_params = <<>>
       [] n = 6 -> validate_order_parameters_of(order_params[1], account) # <<>>

\* C27: the plan process_signal stores with a queued signal comes from the
\* stages chain retrieval, contract selection, position sizing, risk check,
\* order construction, order validation, run in that order up to the first
\* one that fails: a failed plan carries the step tag of that stage, which is
\* the last stage that ran, and every stage before it passed; a successful
\* plan ran all six and carries the contract, the quantity, the risk verdict
\* and the order parameters
C27_StagesInOrder ==
  [][ (op' = "process_signal" /\ lastReturn'.status = "queued") =>
        LET entry == signal_queue'[Len(signal_queue')]
            plan == entry.processing_result
            book == position_book(entry.account_name)
            ran == Len(plan.stages)
        IN /\ ran \in 1..Len(PipelineStages)
           /\ plan.stages = SubSeq(PipelineStages, 1, ran)
           /\ \A n \in 1..(ran - 1) :
                 ~stage_fails(n, entry.trade_signal, broker, book)
           /\ IF plan.success
                THEN /\ ran = Len(PipelineStages)
                     /\ ~stage_fails(ran, entry.trade_signal, broker, book)
                     /\ {"selected_contract", "suggested_quantity",
                          "risk_result", "order_params"} \subseteq DOMAIN plan
                ELSE /\ plan.step = PipelineStages[ran]
                     /\ stage_fails(ran, entry.trade_signal, broker, book) ]_vars

\* a signal was queued with a plan that had stopped at its first stage
C27_Witness ==
  /\ op = "process_signal"
  /\ signal_queue # <<>>
  /\ signal_queue[Len(signal_queue)].processing_result.step = "option_chain_retrieval"
  /\ signal_queue[Len(signal_queue)].processing_result.stages
       = <<"option_chain_retrieval">>

RECURSIVE sum_of_counts(_)
sum_of_counts(counts) ==
  IF DOMAIN counts = {} THEN 0
  ELSE LET s == CHOOSE x \in DOMAIN counts : TRUE
       IN counts[s] + sum_of_counts([x \in DOMAIN counts \ {s} |-> counts[x]])

queued_ids == {id \in SignalIds : status[id] = "queued"}

\* get_queue_status reports as many tracked signals as its counts add up to
totals_add_up ==
  op = "get_queue_status" =>
    lastReturn.total_signals = sum_of_counts(lastReturn.status_counts)

\* C29 as stated: while SignalProcessor runs no operation the queue has as
\* many entries as there are signal ids with the status queued, no id has the
\* status processing, and get_queue_status reports a total equal to the sum of
\* its status counts
C29_AsStated ==
  (orchestrator = "SignalProcessor" /\ pc = "idle") =>
    /\ Len(queue) = Cardinality(queued_ids)
    /\ \A id \in SignalIds : status[id] # "processing"
    /\ totals_add_up

\* C29: while SignalProcessor runs no operation the signal ids in the queue
\* are exactly the ids with the status queued, so the queue has at least as
\* many entries as there are queued ids and exactly as many when no id is
\* queued twice; no id has the status processing, and get_queue_status
\* reports a total equal to the sum of its status counts
C29_QueueMatchesStatus ==
  (orchestrator = "SignalProcessor" /\ pc = "idle") =>
    /\ {queue[i].signal_id : i \in 1..Len(queue)} = queued_ids
    /\ Len(queue) >= Cardinality(queued_ids)
    /\ (\A i, j \in 1..Len(queue) :
          queue[i].signal_id = queue[j].signal_id => i = j)
         => Len(queue) = Cardinality(queued_ids)
    /\ \A id \in SignalIds : status[id] # "processing"
    /\ totals_add_up

\* get_queue_status answered while two signals submitted under one id were
\* waiting and another id had finished
C29_Witness ==
  /\ orchestrator = "SignalProcessor"
  /\ pc = "idle"
  /\ op = "get_queue_status"
  /\ Len(queue) = 2
  /\ queue[1].signal_id = queue[2].signal_id
  /\ lastReturn.queue_length = 2
  /\ lastReturn.total_signals = 2
  /\ Cardinality(queued_ids) = 1

\* the TradeSignal objects waiting in the queue of either processor
queued_trade_signals ==
  {queue[i] : i \in 1..Len(queue)}
    \cup {signal_queue[i].trade_signal : i \in 1..Len(signal_queue)}

\* C30: every TradeSignal in the queue has a lower-case action among buy,
\* sell, close and close_all, a quantity that is present and above zero, and
\* a price and a stop price that are above zero when present
C30_QueuedSignalsNormalized ==
  \A trade_signal \in queued_trade_signals :
    /\ trade_signal.action \in {"buy", "sell", "close", "close_all"}
    /\ trade_signal.quantity # None
    /\ trade_signal.quantity > 0
    /\ trade_signal.price = None \/ trade_signal.price > 0
    /\ trade_signal.stop_price = None \/ trade_signal.stop_price > 0

====
